---- MODULE Spec2Model ----
(***************************************************************************)
(* A model of phoebusalarm: the AlarmTree data model (alarmtree.py), the   *)
(* node classes (alarmnodes.py) and the alarm handler parser               *)
(* (alhparser.py).                                                         *)
(*                                                                         *)
(* Python values are modelled as follows.  Identifiers, names, tags and    *)
(* file names are strings.  A node object is a record of its attributes;   *)
(* an attribute that an object does not have is a field that is not in the *)
(* record's domain.  A float is an integer number of tenths.  A call       *)
(* returns a record that holds the raised exception (None when the call    *)
(* returned) beside its results.                                           *)
(***************************************************************************)
EXTENDS Integers, Sequences, FiniteSets, TLC

VARIABLES
    alarmTree,      \* the AlarmTree object: [nodes, root]
    uuidCount,      \* number of uuid1() identifiers handed out so far
    call,           \* the last call made on the tree API, with its outcome
    heap,           \* the AlarmFilter objects, by address
    currentNode,    \* parse_alh: identifier of the current node
    continueData,   \* parse_alh: the pending continuation's accumulator
    lastCall,       \* parse_alh: the handler of the last dispatched keyword
    line,           \* parse_alh: the line read last
    lineno,         \* parse_alh: number of lines read
    status,         \* parse_alh: "idle", "running", "returned" or "raised"
    error,          \* parse_alh: the exception it raised, None otherwise
    frames,         \* recursive_alh_parse: the calls in progress, last on top
    disk            \* recursive_alh_parse: its arguments and the files

\* no conversion of files is under way
NoDisk ==
    [sources |-> <<>>, outputs |-> {}, existing |-> {}, parsed |-> {},
     written |-> {}, singleFile |-> FALSE, ignoreExisting |-> FALSE]

vars == <<alarmTree, uuidCount, call, heap, currentNode, continueData,
          lastCall, line, lineno, status, error, frames, disk>>

parserVars == <<heap, currentNode, continueData, lastCall, line, lineno,
                status, error, frames, disk>>

-----------------------------------------------------------------------------
(* Bounds of the model *)

\* most nodes a tree holds, the root included
MaxNodes == 4

\* most InclusionMarker objects constructed in one behaviour
MaxUuid == 1

\* longest group identifier a client creates ("R/a/b" has 5 characters)
MaxIdLen == 5

\* most lines of an alh file
MaxLines == 3

\* most AlarmFilter objects a client constructs
MaxFilters == 1

-----------------------------------------------------------------------------
(* Python basics *)

None == "<None>"

\* the configName the tree is constructed with
ConfigName == "R"

\* outcome of a call: exc is None when the call returned
Returned(v) == [exc |-> None, val |-> v]

Raised(e) == [exc |-> e, val |-> None]

\* float(newKey) of the sortKey setter, in tenths: numbers and numeric
\* strings convert, any other string raises ValueError
float(x) ==
    CASE x = "0" -> [exc |-> None, val |-> 0]
      [] x = "0.1" -> [exc |-> None, val |-> 1]
      [] x = "1" -> [exc |-> None, val |-> 10]
      [] x = "2" -> [exc |-> None, val |-> 20]
      [] x = "5" -> [exc |-> None, val |-> 50]
      [] x = "0.0" -> [exc |-> None, val |-> 0]
      [] x = "1.0" -> [exc |-> None, val |-> 10]
      [] x = "2.0" -> [exc |-> None, val |-> 20]
      [] x = "5.0" -> [exc |-> None, val |-> 50]
      [] x = "2.5" -> [exc |-> None, val |-> 25]
      [] OTHER -> [exc |-> "ValueError", val |-> 0]

\* Python numbers as the filters hold them: the type and the value in
\* tenths; int and float of the same value print differently
py_int(n) == [type |-> "int", tenths |-> 10 * n]

py_float(tenths) == [type |-> "float", tenths |-> tenths]

py_bool(b) == [type |-> "bool", tenths |-> IF b THEN 10 ELSE 0]

\* a str held where a number can be held too
py_text(text) == [type |-> "str", text |-> text]

\* str(value) as str.format prints a non-negative number, a bool or a str
py_str(value) ==
    CASE value.type = "str" -> value.text
      [] value.type = "int" -> ToString(value.tenths \div 10)
      [] value.type = "float" ->
            ToString(value.tenths \div 10) \o "." \o
                ToString(value.tenths % 10)
      [] value.type = "bool" ->
            IF value.tenths # 0 THEN "True" ELSE "False"

\* str(uuid.uuid1()): a fresh identifier at every call
uuid1(n) == "uuid-" \o ToString(n)

\* list.remove(x): drops the first occurrence of x
RECURSIVE list_remove(_, _)
list_remove(s, x) ==
    IF s = <<>> THEN <<>>
    ELSE IF Head(s) = x THEN Tail(s)
    ELSE <<Head(s)>> \o list_remove(Tail(s), x)

\* the elements of a sequence
Range(s) == {s[i] : i \in 1..Len(s)}

\* dict.pop(k) / del d[k]
dict_pop(d, k) == [x \in (DOMAIN d) \ {k} |-> d[x]]

\* d[k] = v
dict_set(d, k, v) == [x \in (DOMAIN d) \cup {k} |-> IF x = k THEN v ELSE d[x]]

-----------------------------------------------------------------------------
(* Python strings *)

Whitespace == {" ", "\t", "\n", "\r"}

\* s[i:] with i counted from 1
str_from(s, i) == IF i > Len(s) THEN "" ELSE SubSeq(s, i, Len(s))

\* needle in hay
str_contains(hay, needle) ==
    \E i \in 1..(Len(hay) - Len(needle) + 1) :
        SubSeq(hay, i, i + Len(needle) - 1) = needle

\* s.startswith(prefix)
str_startswith(s, prefix) ==
    Len(s) >= Len(prefix) /\ SubSeq(s, 1, Len(prefix)) = prefix

\* s.isspace(): at least one character and only whitespace
str_isspace(s) ==
    Len(s) > 0 /\ \A i \in 1..Len(s) : SubSeq(s, i, i) \in Whitespace

\* s.lstrip()
str_lstrip(s) ==
    LET keep == {i \in 1..Len(s) : SubSeq(s, i, i) \notin Whitespace} IN
    IF keep = {} THEN ""
    ELSE str_from(s, CHOOSE i \in keep : \A j \in keep : i <= j)

\* s.rstrip()
str_rstrip(s) ==
    LET keep == {i \in 1..Len(s) : SubSeq(s, i, i) \notin Whitespace} IN
    IF keep = {} THEN ""
    ELSE SubSeq(s, 1, CHOOSE i \in keep : \A j \in keep : i >= j)

\* s.strip()
str_strip(s) == str_lstrip(str_rstrip(s))

\* s.split(): the runs of non-whitespace characters of s
RECURSIVE split_from(_, _, _)
split_from(s, i, cur) ==
    IF i > Len(s) THEN (IF cur = "" THEN <<>> ELSE <<cur>>)
    ELSE IF SubSeq(s, i, i) \in Whitespace
    THEN (IF cur = "" THEN <<>> ELSE <<cur>>) \o split_from(s, i + 1, "")
    ELSE split_from(s, i + 1, cur \o SubSeq(s, i, i))

str_split(s) == split_from(s, 1, "")

\* the place of the first whitespace character of t, Len(t) + 1 without
first_space(t) ==
    LET ws == {i \in 1..Len(t) : SubSeq(t, i, i) \in Whitespace} IN
    IF ws = {} THEN Len(t) + 1 ELSE CHOOSE i \in ws : \A j \in ws : i <= j

\* the first word and, when it is not empty, the rest
split1_pair(first, rest) ==
    IF rest = "" THEN <<first>> ELSE <<first, rest>>

\* t cut at its first whitespace, t without leading whitespace
split1_cut(t, k) ==
    IF t = "" THEN <<>>
    ELSE split1_pair(SubSeq(t, 1, k - 1), str_lstrip(str_from(t, k)))

\* s.split(maxsplit=1): the first run of non-whitespace characters and,
\* when something follows it, the rest of s without its leading whitespace
str_split1(s) == split1_cut(str_lstrip(s), first_space(str_lstrip(s)))

\* s.replace(old, new), old not empty
RECURSIVE str_replace(_, _, _)
str_replace(s, old, new) ==
    IF Len(s) < Len(old) THEN s
    ELSE IF SubSeq(s, 1, Len(old)) = old
    THEN new \o str_replace(str_from(s, Len(old) + 1), old, new)
    ELSE SubSeq(s, 1, 1) \o str_replace(str_from(s, 2), old, new)

\* the part of s behind the last occurrence of the character c, s itself
\* when c does not occur: s.split(c)[-1]
str_after_last(s, c) ==
    LET at == {i \in 1..Len(s) : SubSeq(s, i, i) = c} IN
    IF at = {} THEN s
    ELSE str_from(s, 1 + (CHOOSE i \in at : \A j \in at : i >= j))

\* os.path.splitext(file)[0]: file without its extension; a name made of
\* leading dots only up to the last dot has no extension
path_splitext_root(file) ==
    LET dots == {i \in 1..Len(file) : SubSeq(file, i, i) = "."}
        last == CHOOSE i \in dots : \A j \in dots : i >= j
    IN IF dots = {} THEN file
       ELSE IF \A i \in 1..(last - 1) : SubSeq(file, i, i) = "." THEN file
       ELSE SubSeq(file, 1, last - 1)

-----------------------------------------------------------------------------
(* alarmnodes.py: the node classes *)

\* nodes and identifiers are both passed as identifiers in the model
id_from_node_or_str(node) == node

\* BaseNode.__init__ with an explicit identifier
BaseNode(identifier, tag, sortKey) ==
    LET key == float(sortKey) IN
    IF key.exc # None THEN Raised(key.exc)
    ELSE Returned([cls |-> "BaseNode",
                   identifier |-> identifier,
                   tag |-> IF tag = None THEN identifier ELSE tag,
                   sortKey |-> key.val])

\* AlarmNode.__init__
AlarmNode(name, identifier, tag, sortKey) ==
    LET key == float(sortKey) IN
    IF key.exc # None THEN Raised(key.exc)
    ELSE Returned([cls |-> "AlarmNode",
                   identifier |-> identifier,
                   tag |-> IF tag = None THEN name ELSE tag,
                   sortKey |-> key.val,
                   name |-> name,
                   guidances |-> <<>>,
                   commands |-> <<>>,
                   displays |-> <<>>,
                   actions |-> <<>>])

\* AlarmPV.__init__
AlarmPV(channelPV, sortKey) ==
    LET base == AlarmNode(channelPV, channelPV, None, sortKey) IN
    IF base.exc # None THEN base
    ELSE Returned([a \in (DOMAIN base.val) \cup
                         {"desc", "enabled", "latch", "annunciate", "delay",
                          "count", "filter"} |->
                     CASE a = "cls" -> "AlarmPV"
                       [] a = "desc" -> ""
                       [] a = "enabled" -> TRUE
                       [] a = "latch" -> TRUE
                       [] a = "annunciate" -> TRUE
                       [] a = "delay" -> py_int(0)
                       [] a = "count" -> py_int(0)
                       [] a = "filter" -> ""
                       [] OTHER -> base.val[a]])

\* InclusionMarker.__init__: the identifier is a fresh uuid, the tag is the
\* identifier; n is the number of uuids handed out before
InclusionMarker(filename, sortKey, n) ==
    LET key == float(sortKey) IN
    IF key.exc # None THEN Raised(key.exc)
    ELSE Returned([cls |-> "InclusionMarker",
                   identifier |-> uuid1(n),
                   tag |-> uuid1(n),
                   sortKey |-> key.val,
                   filename |-> filename])

-----------------------------------------------------------------------------
(* alarmtree.py: AlarmTree *)

TreeEntry(node, parentId, children) ==
    [node |-> node, parentId |-> parentId, children |-> children]

\* outcome of a tree method: the tree after the call, the exception raised
\* (None when it returned), the identifier and the number it returned
TreeResult(tree, exc, id, count) ==
    [tree |-> tree, exc |-> exc, id |-> id, count |-> count]

\* add_node without the duplicate check: the entry is overwritten
add_node_overwrite(tree, node, parent) ==
    LET pid == id_from_node_or_str(parent) IN
    IF pid # None /\ pid \notin DOMAIN tree.nodes
    THEN [tree |-> tree, exc |-> "ValueError", id |-> None, count |-> 0]
    ELSE LET added == dict_set(tree.nodes, node.identifier,
                               [node |-> node, parentId |-> pid,
                                children |-> <<>>])
             linked == IF pid # None
                       THEN [added EXCEPT ![pid].children =
                                 Append(@, node.identifier)]
                       ELSE added
         IN [tree |-> [nodes |-> linked, root |-> tree.root], exc |-> None,
             id |-> node.identifier, count |-> 0]

\* AlarmTree.add_node
add_node(tree, node, parent) ==
    IF node.identifier \in DOMAIN tree.nodes
    THEN TreeResult(tree, "DuplicatedNodeIdError", None, 0)
    ELSE LET pid == id_from_node_or_str(parent) IN
         IF pid = None /\ tree.root # None
         THEN TreeResult(tree, "ValueError", None, 0)
         ELSE IF pid # None /\ pid \notin DOMAIN tree.nodes
         THEN TreeResult(tree, "ValueError", None, 0)
         ELSE LET root == IF pid = None THEN node.identifier ELSE tree.root
                  added == dict_set(tree.nodes, node.identifier,
                                    TreeEntry(node, pid, <<>>))
                  linked == IF pid # None
                            THEN [added EXCEPT ![pid].children =
                                      Append(@, node.identifier)]
                            ELSE added
              IN TreeResult([nodes |-> linked, root |-> root], None,
                            node.identifier, 0)

\* AlarmTree.__init__
AlarmTreeInit(configName) ==
    add_node([nodes |-> <<>>, root |-> None],
             BaseNode(configName, configName, "0").val, None).tree

\* AlarmTree.create_node
create_node(tree, name, parent, tag, sortKey) ==
    LET pid0 == id_from_node_or_str(parent)
        pid == IF pid0 = None THEN tree.root ELSE pid0
        identifier == pid \o "/" \o name
        alarmNode == AlarmNode(name, identifier, tag, sortKey)
    IN IF alarmNode.exc # None
       THEN TreeResult(tree, alarmNode.exc, None, 0)
       ELSE add_node(tree, alarmNode.val, pid)

\* AlarmTree.create_alarm
create_alarm(tree, channelPV, parent, sortKey) ==
    LET par == IF parent = None THEN tree.root ELSE parent
        alarmPV == AlarmPV(channelPV, sortKey)
    IN IF alarmPV.exc # None
       THEN TreeResult(tree, alarmPV.exc, None, 0)
       ELSE add_node(tree, alarmPV.val, par)

\* AlarmTree.create_inclusion; n is the number of uuids handed out before
create_inclusion(tree, filename, parent, sortKey, n) ==
    LET par == IF parent = None THEN tree.root ELSE parent
        inclusionNode == InclusionMarker(filename, sortKey, n)
    IN IF inclusionNode.exc # None
       THEN TreeResult(tree, inclusionNode.exc, None, 0)
       ELSE add_node(tree, inclusionNode.val, par)

\* AlarmTree.get_node
get_node(tree, nid) == IF nid # None THEN tree.nodes[nid].node ELSE None

\* AlarmTree.children: the node objects of the child list, in list order
children(tree, parent) ==
    LET pid == id_from_node_or_str(parent) IN
    [i \in 1..Len(tree.nodes[pid].children) |->
        tree.nodes[tree.nodes[pid].children[i]].node]

\* AlarmTree.is_leaf
is_leaf(tree, node) == tree.nodes[id_from_node_or_str(node)].children = <<>>

\* AlarmTree.parent: the identifier of the parent node, None for the root
parent_of(tree, node) == tree.nodes[id_from_node_or_str(node)].parentId

\* recursive_node_remove that pops nid and does not descend
recursive_node_remove_shallow(nodes, nid) ==
    [nodes |-> dict_pop(nodes, nid), count |-> 1]

\* AlarmTree.recursive_node_remove: pops nid, then its children one after
\* the other; returns the node table and the number of nodes removed
RECURSIVE recursive_node_remove(_, _)
RECURSIVE remove_children(_, _, _)
recursive_node_remove(nodes, nid) ==
    LET removedEntry == nodes[nid] IN
    remove_children(dict_pop(nodes, nid), removedEntry.children, 1)

\* the loop of recursive_node_remove over removedEntry.children
remove_children(nodes, cids, numberRemoved) ==
    IF cids = <<>> THEN [nodes |-> nodes, count |-> numberRemoved]
    ELSE LET removedChildren == recursive_node_remove(nodes, Head(cids)) IN
         remove_children(removedChildren.nodes, Tail(cids),
                         numberRemoved + removedChildren.count)

\* remove_node that leaves the node in its parent's child list
remove_node_keeps_link(tree, node) ==
    LET nid == id_from_node_or_str(node) IN
    IF nid = tree.root
    THEN TreeResult(tree, "RootNodeRemovalError", None, 0)
    ELSE IF nid \notin DOMAIN tree.nodes
    THEN TreeResult(tree, "KeyError", None, 0)
    ELSE LET removed == recursive_node_remove(tree.nodes, nid)
         IN TreeResult([tree EXCEPT !.nodes = removed.nodes], None, None,
                       removed.count)

\* AlarmTree.remove_node
remove_node(tree, node) ==
    LET nid == id_from_node_or_str(node) IN
    IF nid = tree.root
    THEN TreeResult(tree, "RootNodeRemovalError", None, 0)
    ELSE IF nid \notin DOMAIN tree.nodes
    THEN TreeResult(tree, "KeyError", None, 0)
    ELSE LET pid == tree.nodes[nid].parentId
             unlinked == [tree.nodes EXCEPT ![pid].children =
                              list_remove(@, nid)]
             removed == recursive_node_remove(unlinked, nid)
         IN TreeResult([tree EXCEPT !.nodes = removed.nodes], None, None,
                       removed.count)

\* link_past_node without the test for the root: the lookup of the parent
\* entry nodes[None] raises KeyError
link_past_node_no_root_test(tree, node) ==
    LET nid == id_from_node_or_str(node) IN
    IF nid \notin DOMAIN tree.nodes \/ tree.nodes[nid].parentId = None
    THEN TreeResult(tree, "KeyError", None, 0)
    ELSE LET pid == tree.nodes[nid].parentId
             cids == tree.nodes[nid].children
             spliced == [tree.nodes EXCEPT ![pid].children =
                             list_remove(@, nid) \o cids]
             popped == dict_pop(spliced, nid)
             relinked == [c \in DOMAIN popped |->
                            IF c \in Range(cids)
                            THEN TreeEntry(popped[c].node, pid,
                                           popped[c].children)
                            ELSE popped[c]]
         IN TreeResult([tree EXCEPT !.nodes = relinked], None, None, 0)

\* link_past_node without the loop that gives the children their new parent
link_past_node_no_relink(tree, node) ==
    LET nid == id_from_node_or_str(node) IN
    IF nid \notin DOMAIN tree.nodes
    THEN TreeResult(tree, "KeyError", None, 0)
    ELSE LET pid == tree.nodes[nid].parentId
             cids == tree.nodes[nid].children
         IN IF pid = None
            THEN TreeResult(tree, "RootNodeRemovalError", None, 0)
            ELSE LET spliced == [tree.nodes EXCEPT ![pid].children =
                                     list_remove(@, nid) \o cids]
                 IN TreeResult([tree EXCEPT !.nodes = dict_pop(spliced, nid)],
                               None, None, 0)

\* AlarmTree.link_past_node
link_past_node(tree, node) ==
    LET nid == id_from_node_or_str(node) IN
    IF nid \notin DOMAIN tree.nodes
    THEN TreeResult(tree, "KeyError", None, 0)
    ELSE LET pid == tree.nodes[nid].parentId
             cids == tree.nodes[nid].children
         IN IF pid = None
            THEN TreeResult(tree, "RootNodeRemovalError", None, 0)
            ELSE LET spliced == [tree.nodes EXCEPT ![pid].children =
                                     list_remove(@, nid) \o cids]
                     popped == dict_pop(spliced, nid)
                     relinked == [c \in DOMAIN popped |->
                                    IF c \in Range(cids)
                                    THEN TreeEntry(popped[c].node, pid,
                                                   popped[c].children)
                                    ELSE popped[c]]
                 IN TreeResult([tree EXCEPT !.nodes = relinked], None, None, 0)

\* sorted(nodes, key=attrgetter("sortKey")): a stable sort, ascending
RECURSIVE sorted(_)
sorted_insert(s, x) ==
    LET after == {i \in 1..Len(s) : s[i].sortKey > x.sortKey}
        pos == IF after = {} THEN Len(s) + 1
               ELSE CHOOSE i \in after : \A j \in after : i <= j
    IN SubSeq(s, 1, pos - 1) \o <<x>> \o SubSeq(s, pos, Len(s))

sorted(s) ==
    IF s = <<>> THEN <<>>
    ELSE sorted_insert(sorted(SubSeq(s, 1, Len(s) - 1)), s[Len(s)])

\* an export loop that visits the children without sorting them
export_children_unsorted(tree, nid) == children(tree, nid)

\* the children in the order get_element_tree and get_alh_lines visit them
export_children(tree, nid) == sorted(children(tree, nid))

-----------------------------------------------------------------------------------------------------------------------------------------------------
(* alarmnodes.py: attributes and methods of node objects *)

\* obj.attr = value, for an attribute the object has or has not yet
SetAttr(node, attr, value) ==
    [a \in (DOMAIN node) \cup {attr} |-> IF a = attr THEN value ELSE node[a]]

\* hasattr(obj, attr)
HasAttr(node, attr) == attr \in DOMAIN node

\* the classes that have guidances, commands, displays, actions and _name
IsAlarmNode(node) == node.cls \in {"AlarmNode", "AlarmPV"}

\* AlarmNode.add_guidance
add_guidance(node, title, details) ==
    [node EXCEPT !.guidances = Append(@, [title |-> title,
                                          details |-> details])]

\* AlarmNode.add_command
add_command(node, title, details) ==
    [node EXCEPT !.commands = Append(@, [title |-> title,
                                         details |-> details])]

\* AlarmNode.add_display without macros
add_display(node, title, path) ==
    [node EXCEPT !.displays = Append(@, [title |-> title, details |-> path])]

\* AlarmNode.add_auto_action
add_auto_action(node, title, delay, command) ==
    [node EXCEPT !.actions = Append(@, [title |-> title,
                                        details |-> "cmd:" \o command,
                                        delay |-> delay])]

\* AlarmNode.add_sevr_pv with the default title
add_sevr_pv(node, pv) ==
    [node EXCEPT !.actions = Append(@, [title |-> "Severity PV",
                                        details |-> "sevrpv:" \o pv,
                                        delay |-> 0])]

\* the slots of an AlarmFilter
Slots == {"A", "B", "C", "D", "E", "F"}

\* AlarmFilter.__init__ without slot arguments
AlarmFilter(expr, value, enabling) ==
    [expr |-> expr, value |-> value, enabling |-> enabling,
     replacements |-> [k \in Slots |-> ""]]

\* alh_export.make_mask: CD for a disabled alarm, T for one that does not
\* latch
make_mask(enabled, latch) ==
    (IF ~enabled THEN "CD" ELSE "--") \o "-" \o
        (IF ~latch THEN "T" ELSE "-") \o "-"

\* any(self.replacements.values())
any_replacement(f) ==
    \E k \in DOMAIN f.replacements : f.replacements[k] # ""

\* the keys a replacements dictionary can hold, in sorted order: the six
\* slots and the key of a $FORCEPV_CALC_Z line
SlotOrder == <<"A", "B", "C", "D", "E", "F", "Z">>

\* the PV a replacements dictionary holds for a key, "" without the key
replacement_of(f, key) ==
    IF key \in DOMAIN f.replacements THEN f.replacements[key] ELSE ""

\* a get_alh_force that writes a line for every slot, populated or not
RECURSIVE calc_lines_every_slot(_, _)
calc_lines_every_slot(f, i) ==
    IF i > Len(SlotOrder) THEN <<>>
    ELSE <<"$FORCEPV_CALC_" \o SlotOrder[i] \o " " \o
               replacement_of(f, SlotOrder[i])>> \o
         calc_lines_every_slot(f, i + 1)

\* the $FORCEPV_CALC_<key> lines of get_alh_force for the slots from i on
RECURSIVE calc_lines(_, _)
calc_lines(f, i) ==
    IF i > Len(SlotOrder) THEN <<>>
    ELSE (IF replacement_of(f, SlotOrder[i]) # ""
          THEN <<"$FORCEPV_CALC_" \o SlotOrder[i] \o " " \o
                     replacement_of(f, SlotOrder[i])>>
          ELSE <<>>) \o calc_lines(f, i + 1)

\* AlarmFilter.get_alh_force: with mask and value already formatted
alh_force_lines(f, forceMask, val) ==
    IF any_replacement(f)
    THEN <<"$FORCEPV CALC " \o forceMask \o " " \o val \o " NE",
           "$FORCEPV_CALC " \o f.expr>> \o calc_lines(f, 1)
    ELSE <<"$FORCEPV " \o f.expr \o " " \o forceMask \o " " \o val \o " NE">>

\* AlarmFilter.get_alh_force: a bool value is printed as an int
get_alh_force(f, latch) ==
    alh_force_lines(f, make_mask(f.enabling, latch),
                    IF f.value.type = "bool"
                    THEN py_str(py_int(f.value.tenths \div 10))
                    ELSE py_str(f.value))

\* re.sub(r"([^=!])=([^=])", r"\1 == \2", expr): a single = between two
\* characters, the first neither = nor !, the second not =, becomes " == ";
\* matches are taken from the left and do not overlap
RECURSIVE re_sub_equals(_)
re_sub_equals(expr) ==
    IF expr = "" THEN ""
    ELSE IF /\ Len(expr) >= 3
            /\ SubSeq(expr, 1, 1) \notin {"=", "!"}
            /\ SubSeq(expr, 2, 2) = "="
            /\ SubSeq(expr, 3, 3) # "="
    THEN SubSeq(expr, 1, 1) \o " == " \o SubSeq(expr, 3, 3) \o
             re_sub_equals(str_from(expr, 4))
    ELSE SubSeq(expr, 1, 1) \o re_sub_equals(str_from(expr, 2))

\* get_phoebus_filter without the replacement of the slot letters
format_slots_unreplaced(expr, replacements) == expr

\* every slot letter of expr replaced by its PV: expr.replace(letter,
\* "{letter}") for the six letters, then expr.format(**replacements)
RECURSIVE format_slots(_, _)
format_slots(expr, replacements) ==
    IF expr = "" THEN ""
    ELSE (IF SubSeq(expr, 1, 1) \in Slots
          THEN replacements[SubSeq(expr, 1, 1)]
          ELSE SubSeq(expr, 1, 1)) \o
         format_slots(str_from(expr, 2), replacements)

\* a get_phoebus_filter that compares with the value True as with a number
phoebus_format_no_shortcut(f, expr, open, close) ==
    IF f.enabling
    THEN open \o expr \o close \o " == " \o py_str(f.value)
    ELSE open \o expr \o close \o " != " \o py_str(f.value)

\* AlarmFilter.get_phoebus_filter: fmtString.format(expr, val), with the
\* parentheses of the format string written as open and close
phoebus_format(f, expr, open, close) ==
    IF f.value.type = "bool" /\ f.value.tenths # 0
    THEN IF f.enabling THEN expr ELSE "!" \o open \o expr \o close
    ELSE IF f.enabling
    THEN open \o expr \o close \o " == " \o py_str(f.value)
    ELSE open \o expr \o close \o " != " \o py_str(f.value)

\* a get_phoebus_filter that keeps the parentheses of the format string
phoebus_filter_parenthesised(f, expr) ==
    IF any_replacement(f)
    THEN phoebus_format(f, format_slots(expr, f.replacements), "(", ")")
    ELSE phoebus_format(f, expr, "(", ")")

\* AlarmFilter.get_phoebus_filter: expr has the comparisons fixed; without
\* replacements the parentheses of the format string are dropped
phoebus_filter_of(f, expr) ==
    IF any_replacement(f)
    THEN phoebus_format(f, format_slots(expr, f.replacements), "(", ")")
    ELSE phoebus_format(f, expr, "", "")

\* AlarmFilter.get_phoebus_filter
get_phoebus_filter(f) ==
    phoebus_filter_of(f, str_replace(re_sub_equals(f.expr), "#", " != "))

-----------------------------------------------------------------------------
(* alhparser.py: the handlers of the keywords *)

\* The objects a handler works on: the tree, the AlarmFilter objects and
\* the number of uuids handed out.  A filter attribute holds the empty string
\* or the address of an AlarmFilter object.
World(tree, objects, uuids) == [tree |-> tree, heap |-> objects, uuid |-> uuids]

\* the address of the object allocated next
NewAddress(w) == "AlarmFilter@" \o ToString(Len(w.heap) + 1)

\* the index of the object at an address
RECURSIVE AddressIndex(_, _)
AddressIndex(address, n) ==
    IF n = 0 \/ address = "AlarmFilter@" \o ToString(n) THEN n
    ELSE AddressIndex(address, n - 1)

\* the exception class alhparser.py imports and catches; AlarmTree raises
\* its own class of the same name
TreelibDuplicatedNodeIdError == "treelib.exceptions.DuplicatedNodeIdError"

\* what a handler hands back: the objects after the call, the current
\* node and continuation data it returned, or the exception it raised
Handled(w, node, data) == [w |-> w, node |-> node, data |-> data, exc |-> None]

Failed(w, exc) == [w |-> w, node |-> None, data |-> None, exc |-> exc]

NodeOf(w, nid) == w.tree.nodes[nid].node

SetNode(w, nid, node) == [w EXCEPT !.tree.nodes[nid].node = node]

\* a find_parent that compares the displayed names instead of the tags
RECURSIVE find_parent_walk_by_name(_, _, _)
find_parent_walk_by_name(tree, current, parentName) ==
    IF current = None THEN Raised("AttributeError")
    ELSE IF /\ HasAttr(tree.nodes[current].node, "name")
            /\ parentName = tree.nodes[current].node.name
    THEN Returned(current)
    ELSE find_parent_walk_by_name(tree, parent_of(tree, current), parentName)

\* find_parent: walks up from the current node until a tag equals
\* parentName; None.tag raises AttributeError above the root
RECURSIVE find_parent_walk(_, _, _)
find_parent_walk(tree, current, parentName) ==
    IF current = None THEN Raised("AttributeError")
    ELSE IF parentName = tree.nodes[current].node.tag THEN Returned(current)
    ELSE find_parent_walk(tree, parent_of(tree, current), parentName)

find_parent(tree, current, parentName) ==
    IF parentName = "NULL" THEN Returned(None)
    ELSE find_parent_walk(tree, current, parentName)

\* a propagate_filter that copies nothing
propagate_filter_nothing(tree, parentId, nid) == tree

\* propagate_filter: the child gets the parent's filter attribute; nothing
\* happens when there is no parent or the parent has no such attribute
propagate_filter(tree, parentId, nid) ==
    IF parentId # None /\ HasAttr(tree.nodes[parentId].node, "filter")
    THEN [tree EXCEPT !.nodes[nid].node =
              SetAttr(@, "filter", tree.nodes[parentId].node.filter)]
    ELSE tree

\* process_group: the new group takes the filter of its parent
group_created(w, parentId, res) ==
    IF res.exc # None THEN Failed(w, res.exc)
    ELSE Handled([w EXCEPT !.tree = propagate_filter(res.tree, parentId,
                                                     res.id)],
                 res.id, None)

\* process_group: create_node under the parent find_parent found
group_under(w, found, name) ==
    IF found.exc # None THEN Failed(w, found.exc)
    ELSE group_created(w, found.val,
                       create_node(w.tree, name, found.val, None, "0"))

\* process_group
process_group(alhArgs, w, current, data, keyword) ==
    LET parts == str_split(alhArgs) IN
    IF Len(parts) # 2 THEN Failed(w, "ValueError")
    ELSE group_under(w, find_parent(w.tree, current, parts[1]), parts[2])

\* a mask under which a channel always latches
apply_mask_latching(node, mask) ==
    IF str_contains(mask, "C") \/ str_contains(mask, "D")
    THEN SetAttr(node, "enabled", FALSE) ELSE node

\* the channel mask of process_channel: C or D disables, T unlatches
apply_mask(node, mask) ==
    LET disabled == IF str_contains(mask, "C") \/ str_contains(mask, "D")
                    THEN SetAttr(node, "enabled", FALSE) ELSE node
    IN IF str_contains(mask, "T") THEN SetAttr(disabled, "latch", FALSE)
       ELSE disabled

\* process_channel: params[2] is the mask, when there is one
channel_masked(tree, params) ==
    IF Len(params) >= 3
    THEN [tree EXCEPT !.nodes[params[2]].node = apply_mask(@, params[3])]
    ELSE tree

\* process_channel: only the exception class alhparser.py imports is caught
\* around create_alarm; then the mask and the parent's filter are applied
channel_created(w, parentId, res, params) ==
    IF res.exc \notin {None, TreelibDuplicatedNodeIdError}
    THEN Failed(w, res.exc)
    ELSE Handled([w EXCEPT !.tree =
                      propagate_filter(channel_masked(res.tree, params),
                                       parentId, params[2])],
                 params[2], None)

\* process_channel: create_alarm under the parent find_parent found
channel_under(w, found, params) ==
    IF found.exc # None THEN Failed(w, found.exc)
    ELSE channel_created(w, found.val,
                         create_alarm(w.tree, params[2], found.val, "0"),
                         params)

\* process_channel
process_channel(alhArgs, w, current, data, keyword) ==
    LET params == str_split(alhArgs) IN
    IF Len(params) < 2 THEN Failed(w, "IndexError")
    ELSE channel_under(w, find_parent(w.tree, current, params[1]), params)

\* process_include: the current node stays
include_created(made, res, current) ==
    IF res.exc # None THEN Failed(made, res.exc)
    ELSE Handled([made EXCEPT !.tree = res.tree], current, None)

\* process_include: create_inclusion under the parent find_parent found
include_under(w, found, fileName, current) ==
    IF found.exc # None THEN Failed(w, found.exc)
    ELSE include_created([w EXCEPT !.uuid = @ + 1],
                         create_inclusion(w.tree, fileName, found.val, "0",
                                          w.uuid),
                         current)

\* process_include
process_include(alhArgs, w, current, data, keyword) ==
    LET parts == str_split(alhArgs) IN
    IF Len(parts) # 2 THEN Failed(w, "ValueError")
    ELSE include_under(w, find_parent(w.tree, current, parts[1]), parts[2],
                       current)

\* command_name: the first word of the command line without its directory
\* and extension; unpacking an empty command line raises ValueError
command_name(commandString) ==
    LET words == str_split(commandString) IN
    IF words = <<>> THEN Raised("ValueError")
    ELSE Returned(path_splitext_root(str_after_last(words[1], "/")))

\* process_alias: the new node takes over the lists of the old one
alias_copy(newNode, oldNode) ==
    [newNode EXCEPT !.guidances = oldNode.guidances,
                    !.commands = oldNode.commands,
                    !.displays = oldNode.displays,
                    !.actions = oldNode.actions]

\* process_alias: the node created under the alias is the current node
alias_created(w, oldNode, created) ==
    IF created.exc # None THEN Failed(w, created.exc)
    ELSE Handled(SetNode([w EXCEPT !.tree = created.tree], created.id,
                         alias_copy(created.tree.nodes[created.id].node,
                                    oldNode)),
                 created.id, None)

\* process_alias: the group is removed and created again under the alias,
\* with its old name as the tag
alias_removed(alias, w, oldNode, parent, removed) ==
    IF removed.exc # None THEN Failed(w, removed.exc)
    ELSE alias_created([w EXCEPT !.tree = removed.tree], oldNode,
                       create_node(removed.tree, alias, parent,
                                   oldNode.name, "0"))

\* a process_alias that renames a group without looking at its children
alias_node_no_children_test(alias, w, current, node) ==
    IF node.cls = "AlarmPV"
    THEN Handled(SetNode(w, current, SetAttr(node, "desc", alias)),
                 current, None)
    ELSE IF ~HasAttr(node, "name") THEN Failed(w, "AttributeError")
    ELSE IF node.name = alias THEN Handled(w, current, None)
    ELSE alias_removed(alias, w, node, parent_of(w.tree, current),
                       remove_node(w.tree, current))

\* process_alias: the description of a PV; the new name of a group without
\* children whose name differs
alias_node(alias, w, current, node) ==
    IF node.cls = "AlarmPV"
    THEN Handled(SetNode(w, current, SetAttr(node, "desc", alias)),
                 current, None)
    ELSE IF ~HasAttr(node, "name") THEN Failed(w, "AttributeError")
    ELSE IF node.name = alias THEN Handled(w, current, None)
    ELSE IF children(w.tree, current) # <<>> THEN Handled(w, current, None)
    ELSE alias_removed(alias, w, node, parent_of(w.tree, current),
                       remove_node(w.tree, current))

\* process_alias
process_alias(alhArgs, w, current, data, keyword) ==
    alias_node(str_strip(alhArgs), w, current, NodeOf(w, current))

\* process_sevrpv
process_sevrpv(alhArgs, w, current, data, keyword) ==
    LET node == NodeOf(w, current) IN
    IF ~IsAlarmNode(node) THEN Failed(w, "AttributeError")
    ELSE Handled(SetNode(w, current, add_sevr_pv(node, str_strip(alhArgs))),
                 current, None)

\* process_sevrcommand: a command for a severity with UP becomes an
\* automated action unless the details of an action contain the command
sevrcommand_named(sevr, command, commandName, w, current, node) ==
    IF commandName.exc # None THEN Failed(w, commandName.exc)
    ELSE IF ~str_contains(sevr, "UP") THEN Handled(w, current, None)
    ELSE IF ~IsAlarmNode(node) THEN Failed(w, "AttributeError")
    ELSE IF \E i \in 1..Len(node.actions) :
               str_contains(node.actions[i].details, command)
    THEN Handled(w, current, None)
    ELSE Handled(SetNode(w, current,
                         add_auto_action(node, commandName.val, 0, command)),
                 current, None)

\* process_sevrcommand: the severity and the command line
sevrcommand_parts(parts, w, current) ==
    IF Len(parts) # 2 THEN Failed(w, "ValueError")
    ELSE sevrcommand_named(parts[1], parts[2], command_name(parts[2]), w,
                           current, NodeOf(w, current))

\* process_sevrcommand
process_sevrcommand(alhArgs, w, current, data, keyword) ==
    sevrcommand_parts(str_split1(alhArgs), w, current)

\* a process_guidance that strips the lines it accumulates
process_guidance_stripping(alhArgs, w, current, data, keyword) ==
    LET node == NodeOf(w, current) IN
    IF data = None
    THEN IF str_strip(alhArgs) # ""
         THEN IF ~IsAlarmNode(node) THEN Failed(w, "AttributeError")
              ELSE Handled(SetNode(w, current,
                                   add_display(node, "URL",
                                               str_strip(alhArgs))),
                           current, None)
         ELSE Handled(w, current, "")
    ELSE IF str_contains(alhArgs, "$END")
         THEN IF ~IsAlarmNode(node) THEN Failed(w, "AttributeError")
              ELSE Handled(SetNode(w, current,
                                   add_guidance(node, "help", data)),
                           current, None)
         ELSE Handled(w, current, data \o str_strip(alhArgs))

\* process_guidance: the first call attaches a display or asks for more
\* lines; a later call appends the line or, at $END, attaches the guidance
process_guidance(alhArgs, w, current, data, keyword) ==
    LET node == NodeOf(w, current) IN
    IF data = None
    THEN IF str_strip(alhArgs) # ""
         THEN IF ~IsAlarmNode(node) THEN Failed(w, "AttributeError")
              ELSE Handled(SetNode(w, current,
                                   add_display(node, "URL",
                                               str_strip(alhArgs))),
                           current, None)
         ELSE Handled(w, current, "")
    ELSE IF str_contains(alhArgs, "$END")
         THEN IF ~IsAlarmNode(node) THEN Failed(w, "AttributeError")
              ELSE Handled(SetNode(w, current,
                                   add_guidance(node, "help", data)),
                           current, None)
         ELSE Handled(w, current, data \o alhArgs)

\* process_command: the command is added under its name
command_named(commandName, alhArgs, w, current, node) ==
    IF commandName.exc # None THEN Failed(w, commandName.exc)
    ELSE IF ~IsAlarmNode(node) THEN Failed(w, "AttributeError")
    ELSE Handled(SetNode(w, current,
                         add_command(node, commandName.val, alhArgs)),
                 current, None)

\* process_command
process_command(alhArgs, w, current, data, keyword) ==
    command_named(command_name(alhArgs), alhArgs, w, current,
                  NodeOf(w, current))

\* process_alarmcount: count and delay are set to the words of the line
process_alarmcount(alhArgs, w, current, data, keyword) ==
    LET parts == str_split(alhArgs) IN
    IF Len(parts) # 2 THEN Failed(w, "ValueError")
    ELSE Handled(SetNode(w, current,
                         SetAttr(SetAttr(NodeOf(w, current), "count",
                                         py_text(parts[1])),
                                 "delay", py_text(parts[2]))),
                 current, None)

\* process_statcommand: the action is added, then the function returns
\* None, which parse_alh cannot unpack
statcommand_named(commandName, command, w, current, node) ==
    IF commandName.exc # None THEN Failed(w, commandName.exc)
    ELSE IF ~IsAlarmNode(node) THEN Failed(w, "AttributeError")
    ELSE Failed(SetNode(w, current,
                        add_auto_action(node, commandName.val, 0, command)),
                "TypeError")

\* process_statcommand: the status and the command line
statcommand_parts(parts, w, current) ==
    IF Len(parts) # 2 THEN Failed(w, "ValueError")
    ELSE statcommand_named(command_name(parts[2]), parts[2], w, current,
                           NodeOf(w, current))

\* process_statcommand
process_statcommand(alhArgs, w, current, data, keyword) ==
    statcommand_parts(str_split1(alhArgs), w, current)

\* process_beep: returns None, which parse_alh cannot unpack
process_beep(alhArgs, w, current, data, keyword) == Failed(w, "TypeError")

\* get_forcepv_args: the force value is float(args[2]), the int 1 when
\* missing; the reset value is args[3], 0 when missing
get_forcepv_args(args) ==
    IF Len(args) < 2 THEN Raised("IndexError")
    ELSE LET forceValue == IF Len(args) >= 3 THEN float(args[3])
                           ELSE Returned(10)
         IN IF forceValue.exc # None THEN Raised(forceValue.exc)
            ELSE Returned([forcePV |-> args[1],
                           forceValue |-> IF Len(args) >= 3
                                          THEN py_float(forceValue.val)
                                          ELSE py_int(1),
                           resetValue |-> IF Len(args) >= 4 THEN args[4]
                                          ELSE "0",
                           forceEnables |-> ~(\/ str_contains(args[2], "C")
                                              \/ str_contains(args[2], "D"))])

\* create_alarm_filter: an AlarmFilter, or "" for a CALC whose force value
\* is neither 0 nor 1; the filter of a CALC has the default value, the int 1
create_alarm_filter(forcePV, forceValue, filterEnables) ==
    IF forcePV = "CALC"
    THEN IF forceValue.tenths \in {0, 10}
         THEN Returned(AlarmFilter("", py_int(1),
                                   (forceValue.tenths # 0) = filterEnables))
         ELSE Raised("no filter")
    ELSE Returned(AlarmFilter(forcePV, forceValue, filterEnables))

\* process_forcepv: the node is enabled and gets the new filter object
forcepv_filter(made, w, current, node) ==
    IF made.exc # None
    THEN Handled(SetNode(w, current,
                         SetAttr(SetAttr(node, "enabled", TRUE),
                                 "filter", "")),
                 current, None)
    ELSE Handled(SetNode([w EXCEPT !.heap = Append(@, made.val)], current,
                         SetAttr(SetAttr(node, "enabled", TRUE),
                                 "filter", NewAddress(w))),
                 current, None)

\* process_forcepv: a mask that changes nothing clears the filter
forcepv_args(got, w, current, node) ==
    IF got.exc # None THEN Failed(w, got.exc)
    ELSE IF got.val.forceEnables =
                (IF HasAttr(node, "enabled") THEN node.enabled ELSE TRUE)
    THEN Handled(SetNode(w, current, SetAttr(node, "filter", "")),
                 current, None)
    ELSE forcepv_filter(create_alarm_filter(got.val.forcePV,
                                            got.val.forceValue,
                                            got.val.forceEnables),
                        w, current, node)

\* process_forcepv
process_forcepv(alhArgs, w, current, data, keyword) ==
    forcepv_args(get_forcepv_args(str_split(alhArgs)), w, current,
                 NodeOf(w, current))

\* process_forcepv and create_alarm_filter: the levels of the records
\* they log for the arguments got and the node
forcepv_log(got, node) ==
    (IF got.resetValue # "NE" THEN <<"warning">> ELSE <<>>) \o
    (IF got.forceEnables =
            (IF HasAttr(node, "enabled") THEN node.enabled ELSE TRUE)
     THEN <<"warning">>
     ELSE IF got.forcePV = "CALC" /\ got.forceValue.tenths \notin {0, 10}
     THEN <<"error">>
     ELSE <<>>)

\* process_forcepvcalc: sets the expression or one replacement of the
\* filter object at heap[at]; without such an object nothing changes
forcepvcalc_set(key, expr, at, w, current) ==
    IF at = 0 THEN Handled(w, current, None)
    ELSE IF key = "CALC"
    THEN Handled([w EXCEPT !.heap[at].expr = expr], current, None)
    ELSE Handled([w EXCEPT !.heap[at].replacements =
                      [k \in (DOMAIN @) \cup {key} |->
                          IF k = key THEN expr ELSE @[k]]],
                 current, None)

\* process_forcepvcalc: the key is what follows the last _ of the fragment
forcepvcalc_parts(parts, w, current, node) ==
    IF Len(parts) # 2 THEN Failed(w, "ValueError")
    ELSE forcepvcalc_set(str_after_last(parts[1], "_"), parts[2],
                         IF HasAttr(node, "filter")
                         THEN AddressIndex(node.filter, Len(w.heap)) ELSE 0,
                         w, current)

\* process_forcepvcalc
process_forcepvcalc(alhArgs, w, current, data, keyword) ==
    forcepvcalc_parts(str_split(alhArgs), w, current, NodeOf(w, current))

\* process_heartbeat
process_heartbeat(alhArgs, w, current, data, keyword) ==
    Handled(w, current, None)

\* process_ignored
process_ignored(alhArgs, w, current, data, keyword) ==
    Handled(w, current, None)

-----------------------------------------------------------------------------
(* alh_export.py and the get_alh_lines methods: the export to alh *)

\* the part of s before the first character c, s itself without c
RECURSIVE str_before(_, _)
str_before(s, c) ==
    IF s = "" \/ SubSeq(s, 1, 1) = c THEN ""
    ELSE SubSeq(s, 1, 1) \o str_before(str_from(s, 2), c)

\* the part of s behind the first character c, "" without c
RECURSIVE str_after(_, _)
str_after(s, c) ==
    IF s = "" THEN ""
    ELSE IF SubSeq(s, 1, 1) = c THEN str_from(s, 2)
    ELSE str_after(str_from(s, 2), c)

\* what an export hands back: the lines, the warnings issued through
\* warnings.warn on the way, and the exception that ended it
Exported(lines, warnings, exc) ==
    [lines |-> lines, warnings |-> warnings, exc |-> exc]

\* the lines of b after the lines of a, unless a raised
export_then(a, b) ==
    IF a.exc # None THEN a
    ELSE Exported(a.lines \o b.lines, a.warnings \o b.warnings, b.exc)

\* alh_export.format_action: a delayed action is warned about and gives an
\* empty line
format_action_delay(typed, delay) ==
    IF typed.exc = None /\ delay > 0
    THEN Exported(<<"">>,
                  typed.warnings \o <<"delayed action not possible in alh">>,
                  None)
    ELSE typed

\* alh_export.format_action
format_action(action, delay) ==
    IF ~str_contains(action, ":") THEN Exported(<<>>, <<>>, "ValueError")
    ELSE format_action_delay(
             CASE str_before(action, ":") = "sevrpv" ->
                      Exported(<<"$SEVRPV " \o str_after(action, ":")>>,
                               <<>>, None)
               [] str_before(action, ":") = "mailto" ->
                      Exported(<<"">>,
                               <<"mailto action not possible in alh">>, None)
               [] str_before(action, ":") = "cmd" ->
                      Exported(<<"$SEVRCOMMAND UP_ANY " \o
                                     str_after(action, ":")>>, <<>>, None)
               [] OTHER -> Exported(<<>>, <<>>, "ValueError"),
             delay)

\* alh_export.format_display, for a .bob display given as a path without
\* query: the edl file of the same name is opened with EDM_COMMAND
format_display(display) ==
    IF str_contains(display, ".bob")
    THEN "$COMMAND run_edm.sh " \o
             str_replace(str_after_last(display, "/"), ".bob", ".edl")
    ELSE "$GUIDANCE " \o display

\* AlarmNode.get_alh_lines: the three lines of each guidance from the i-th
RECURSIVE guidance_lines(_, _)
guidance_lines(guidances, i) ==
    IF i > Len(guidances) THEN <<>>
    ELSE <<"$GUIDANCE", guidances[i].details, "$END">> \o
         guidance_lines(guidances, i + 1)

\* AlarmNode.get_alh_lines: the lines of the actions from the i-th
RECURSIVE action_lines(_, _)
action_lines(actions, i) ==
    IF i > Len(actions) THEN Exported(<<>>, <<>>, None)
    ELSE export_then(format_action(actions[i].details, actions[i].delay),
                     action_lines(actions, i + 1))

\* AlarmNode.get_alh_lines: the header, the alias, then guidances,
\* commands, displays and actions
alarmnode_alh_lines(node, parent) ==
    export_then(
        Exported(<<"GROUP " \o parent \o " " \o node.tag>> \o
                     (IF node.name # node.tag
                      THEN <<"$ALIAS " \o node.name>> ELSE <<>>) \o
                     guidance_lines(node.guidances, 1) \o
                     [i \in 1..Len(node.commands) |->
                         "$COMMAND " \o node.commands[i].details] \o
                     [i \in 1..Len(node.displays) |->
                         format_display(node.displays[i].details)],
                 <<>>, None),
        action_lines(node.actions, 1))

\* AlarmPV.get_alh_lines: the force PV lines of the filter; a filter that
\* is no AlarmFilter object has no get_alh_force
alarmpv_force_lines(node, objects, at) ==
    IF node.filter = "" THEN Exported(<<>>, <<>>, None)
    ELSE IF at = 0 THEN Exported(<<>>, <<>>, "ValueError")
    ELSE Exported(get_alh_force(objects[at], node.latch), <<>>, None)

\* AlarmPV.get_alh_lines: the mask of the CHANNEL line; a channel with an
\* enabling filter is disabled by default
alarmpv_mask(node, objects, at) ==
    make_mask(IF node.enabled
              THEN ~(IF at = 0 THEN FALSE ELSE objects[at].enabling)
              ELSE FALSE,
              node.latch)

\* AlarmPV.get_alh_lines: base is what AlarmNode.get_alh_lines returned;
\* self.delay > 0 raises TypeError for a str
alarmpv_lines_from(node, objects, parent, base, at) ==
    IF base.exc # None THEN base
    ELSE IF node.delay.type = "str"
    THEN Exported(<<>>, base.warnings, "TypeError")
    ELSE export_then(
             Exported(<<"CHANNEL " \o parent \o " " \o node.name \o " " \o
                            alarmpv_mask(node, objects, at)>> \o
                          (IF node.desc # ""
                           THEN <<"$ALIAS " \o node.desc>> ELSE <<>>) \o
                          Tail(base.lines) \o
                          (IF node.delay.tenths > 0
                           THEN <<"$ALARMCOUNTFILTER " \o py_str(node.count)
                                      \o " " \o py_str(node.delay)>>
                           ELSE <<>>),
                      base.warnings, None),
             alarmpv_force_lines(node, objects, at))

\* AlarmPV.get_alh_lines
alarmpv_alh_lines(node, objects, parent) ==
    alarmpv_lines_from(node, objects, parent,
                       alarmnode_alh_lines(node, parent),
                       AddressIndex(node.filter, Len(objects)))

\* os.path.splitext(file)[0]: the extension is looked for in the last
\* component of the path
splitext_root(file) ==
    SubSeq(file, 1, Len(file) - Len(str_after_last(file, "/"))) \o
        path_splitext_root(str_after_last(file, "/"))

\* InclusionMarker.get_alh_lines
inclusion_alh_lines(node, parent, ext) ==
    Exported(<<"INCLUDE " \o parent \o " " \o
                   (IF ext # None THEN splitext_root(node.filename) \o ext
                    ELSE node.filename)>>,
             <<>>, None)

\* child.get_alh_lines(parent=parentName, ext=ext) by the class of child
node_alh_lines(node, objects, parent, ext) ==
    CASE node.cls = "AlarmPV" -> alarmpv_alh_lines(node, objects, parent)
      [] node.cls = "AlarmNode" -> alarmnode_alh_lines(node, parent)
      [] node.cls = "InclusionMarker" -> inclusion_alh_lines(node, parent, ext)
      [] OTHER -> Exported(<<>>, <<>>, "AttributeError")

\* a get_alh_lines that accepts any number of top groups without a word
top_group_warning_silent(tree, parentID) == <<>>

\* AlarmTree.get_alh_lines: the warning for a root with several children
top_group_warning(tree, parentID) ==
    IF parentID = tree.root /\ Len(tree.nodes[parentID].children) > 1
    THEN <<"creating invalid alh, alarm tree has more than one top group">>
    ELSE <<>>

\* a get_alh_lines that visits the children of a node before the node
RECURSIVE alh_lines_children_first(_, _, _, _, _, _)
alh_lines_children_first(tree, objects, parentID, kids, i, ext) ==
    IF i > Len(kids) THEN Exported(<<>>, <<>>, None)
    ELSE export_then(
             export_then(
                 alh_lines_children_first(tree, objects, kids[i].identifier,
                                          export_children(
                                              tree, kids[i].identifier),
                                          1, ext),
                 export_then(
                     node_alh_lines(kids[i], objects,
                                    IF parentID = tree.root THEN "NULL"
                                    ELSE tree.nodes[parentID].node.tag,
                                    ext),
                     Exported(<<"">>, <<>>, None))),
             alh_lines_children_first(tree, objects, parentID, kids, i + 1,
                                      ext))

\* AlarmTree.get_alh_lines: each child's lines, an empty line, then the
\* lines of the child's children, for the sorted children from the i-th
RECURSIVE alh_lines_below(_, _, _, _, _, _)
alh_lines_below(tree, objects, parentID, kids, i, ext) ==
    IF i > Len(kids) THEN Exported(<<>>, <<>>, None)
    ELSE export_then(
             export_then(
                 export_then(
                     node_alh_lines(kids[i], objects,
                                    IF parentID = tree.root THEN "NULL"
                                    ELSE tree.nodes[parentID].node.tag,
                                    ext),
                     Exported(<<"">>, <<>>, None)),
                 export_then(
                     Exported(<<>>,
                              top_group_warning(tree, kids[i].identifier),
                              None),
                     alh_lines_below(tree, objects, kids[i].identifier,
                                     export_children(tree,
                                                     kids[i].identifier),
                                     1, ext))),
             alh_lines_below(tree, objects, parentID, kids, i + 1, ext))

\* AlarmTree.get_alh_lines
get_alh_lines(tree, objects, parentID, ext) ==
    export_then(
        Exported(<<>>,
                 top_group_warning(tree, IF parentID = None THEN tree.root
                                         ELSE parentID),
                 None),
        alh_lines_below(tree, objects,
                        IF parentID = None THEN tree.root ELSE parentID,
                        export_children(tree, IF parentID = None
                                              THEN tree.root ELSE parentID),
                        1, ext))

-----------------------------------------------------------------------------
(* alarmnodes.py: the export to XML *)

\* an element with a tag, a text and subelements
Element(tag, text, subelements) ==
    [tag |-> tag, text |-> text, subelements |-> subelements]

\* value != 0 for a number, a bool or a str: a str never equals 0
differs_from_zero(value) == value.type = "str" \/ value.tenths # 0

\* the text of a subelement: str(value).lower() for a bool
bool_text(value) == IF value THEN "true" ELSE "false"

\* AlarmNode.get_xml_element: one subelement per guidance, display,
\* command and action, named by its type, with a subelement per field
entry_elements(entries, type) ==
    [i \in 1..Len(entries) |->
         Element(type, "",
                 <<Element("title", entries[i].title, <<>>),
                   Element("details", entries[i].details, <<>>)>> \o
                 (IF type = "automated_action"
                  THEN <<Element("delay", ToString(entries[i].delay), <<>>)>>
                  ELSE <<>>))]

\* AlarmNode.get_xml_element
alarmnode_xml_element(node, xmlType) ==
    [tag |-> xmlType,
     name |-> node.name,
     subelements |-> entry_elements(node.guidances, "guidance") \o
                     entry_elements(node.displays, "display") \o
                     entry_elements(node.commands, "command") \o
                     entry_elements(node.actions, "automated_action")]

\* an AlarmPV that writes the count whenever it differs from zero
delay_count_elements_apart(node) ==
    (IF differs_from_zero(node.delay)
     THEN <<Element("delay", py_str(node.delay), <<>>)>> ELSE <<>>) \o
    (IF differs_from_zero(node.count)
     THEN <<Element("count", py_str(node.count), <<>>)>> ELSE <<>>)

\* AlarmPV.get_xml_element: the delay when it differs from 0 and then the
\* count when it differs from 0
delay_count_elements(node) ==
    IF differs_from_zero(node.delay)
    THEN <<Element("delay", py_str(node.delay), <<>>)>> \o
         (IF differs_from_zero(node.count)
          THEN <<Element("count", py_str(node.count), <<>>)>> ELSE <<>>)
    ELSE <<>>

\* AlarmPV.get_xml_element: the filter string of an AlarmFilter, or the
\* filter itself when it is a str
filter_elements(node, objects) ==
    IF node.filter = "" THEN <<>>
    ELSE IF AddressIndex(node.filter, Len(objects)) # 0
    THEN <<Element("filter",
                   get_phoebus_filter(
                       objects[AddressIndex(node.filter, Len(objects))]),
                   <<>>)>>
    ELSE <<Element("filter", node.filter, <<>>)>>

\* AlarmPV.get_xml_element: the subelements inserted in front of those of
\* AlarmNode.get_xml_element
alarmpv_xml_element(node, objects) ==
    [alarmnode_xml_element(node, "pv") EXCEPT
         !.subelements =
             (IF node.desc # ""
              THEN <<Element("description", node.desc, <<>>)>> ELSE <<>>) \o
             <<Element("enabled", bool_text(node.enabled), <<>>),
               Element("latching", bool_text(node.latch), <<>>),
               Element("annunciating", bool_text(node.annunciate), <<>>)>> \o
             delay_count_elements(node) \o
             filter_elements(node, objects) \o
             @]

-----------------------------------------------------------------------------
(* alhparser.py: parse_alh *)

\* the keys of the dispatch dictionary
Keywords ==
    {"GROUP", "INCLUDE", "$ALIAS", "CHANNEL", "$SEVRPV", "$GUIDANCE",
     "$COMMAND", "$SEVRCOMMAND", "$ALARMCOUNTFILTER", "$FORCEPV",
     "$FORCEPV_CALC", "$STATCOMMAND", "$HEARTBEATPV", "$ACKPV",
     "$BEEPSEVERITY", "$BEEPSEVR"}

\* dispatch[keyword](alhArgs, alarmTree, currentNode, ...)
dispatch(k, alhArgs, w, current, data, keyword) ==
    CASE k = "GROUP" -> process_group(alhArgs, w, current, data, keyword)
      [] k = "INCLUDE" -> process_include(alhArgs, w, current, data, keyword)
      [] k = "$ALIAS" -> process_alias(alhArgs, w, current, data, keyword)
      [] k = "CHANNEL" -> process_channel(alhArgs, w, current, data, keyword)
      [] k = "$SEVRPV" -> process_sevrpv(alhArgs, w, current, data, keyword)
      [] k = "$GUIDANCE" ->
            process_guidance(alhArgs, w, current, data, keyword)
      [] k = "$COMMAND" -> process_command(alhArgs, w, current, data, keyword)
      [] k = "$SEVRCOMMAND" ->
            process_sevrcommand(alhArgs, w, current, data, keyword)
      [] k = "$ALARMCOUNTFILTER" ->
            process_alarmcount(alhArgs, w, current, data, keyword)
      [] k = "$FORCEPV" -> process_forcepv(alhArgs, w, current, data, keyword)
      [] k = "$FORCEPV_CALC" ->
            process_forcepvcalc(alhArgs, w, current, data, keyword)
      [] k = "$STATCOMMAND" ->
            process_statcommand(alhArgs, w, current, data, keyword)
      [] k = "$HEARTBEATPV" ->
            process_heartbeat(alhArgs, w, current, data, keyword)
      [] k = "$ACKPV" -> process_ignored(alhArgs, w, current, data, keyword)
      [] k \in {"$BEEPSEVERITY", "$BEEPSEVR"} ->
            process_beep(alhArgs, w, current, data, keyword)

\* the parser's state after a line: the objects, the current node, the
\* continuation data, the last handler, and the exception that left parse_alh
Parsed(w, current, data, last, exc) ==
    [w |-> w, node |-> current, data |-> data, last |-> last, exc |-> exc]

\* every $FORCEPV_CALC... keyword becomes $FORCEPV_CALC with the fragment
\* put before the arguments
forcepv_keyword(keyword, alhArgs) ==
    IF str_contains(keyword, "$FORCEPV_CALC")
    THEN [keyword |-> "$FORCEPV_CALC",
          alhArgs |-> str_replace(keyword, "$FORCEPV_CALC", "CALC")
                          \o " " \o alhArgs]
    ELSE [keyword |-> keyword, alhArgs |-> alhArgs]

\* keyword, alhArgs = line.split(maxsplit=1), the whole line and "" when
\* that does not give two parts
keyword_args(parts, stripped) ==
    IF Len(parts) = 2 THEN forcepv_keyword(parts[1], parts[2])
    ELSE forcepv_keyword(stripped, "")

\* the keyword and arguments of a stripped line
split_keyword(stripped) == keyword_args(str_split1(stripped), stripped)

\* the call of a handler with continuation data is outside the try
continued(r, current, data, last) ==
    IF r.exc # None THEN Parsed(r.w, current, data, last, r.exc)
    ELSE Parsed(r.w, r.node, r.data, last, None)

\* the try around the call of a handler: KeyError and the exception class
\* alhparser.py imports are caught, every other exception leaves parse_alh
dispatched(r, keyword, current, data, last) ==
    IF r.exc = None THEN Parsed(r.w, r.node, r.data, keyword, None)
    ELSE IF r.exc = "KeyError" THEN Parsed(r.w, current, data, last, None)
    ELSE IF r.exc = TreelibDuplicatedNodeIdError
    THEN Parsed(r.w, r.node, data, last, None)
    ELSE Parsed(r.w, current, data, last, r.exc)

\* a line with a keyword: a keyword outside the dictionary is a KeyError
parse_keyword(kw, w, current, data, last) ==
    IF kw.keyword \notin Keywords THEN Parsed(w, current, data, last, None)
    ELSE dispatched(dispatch(kw.keyword, kw.alhArgs, w, current, None,
                             kw.keyword),
                    kw.keyword, current, data, last)

\* one iteration of the loop of parse_alh over the lines of the file
parse_line(w, current, data, last, text) ==
    IF data # None
    THEN continued(dispatch(last, text, w, current, data, None), current,
                   data, last)
    ELSE IF str_isspace(text) \/ str_startswith(text, "#")
    THEN Parsed(w, current, data, last, None)
    ELSE parse_keyword(split_keyword(str_strip(text)), w, current, data,
                       last)

-----------------------------------------------------------------------------
(* alh_to_xml.py: included files *)

\* the methods class AlarmTree defines
AlarmTreeMethods ==
    {"add_node", "all_nodes", "create_node", "create_alarm",
     "create_inclusion", "get_element_tree", "get_alh_lines", "get_node",
     "children", "get_xml_string", "get_alh_string", "is_leaf",
     "link_past_node", "parent", "remove_node", "recursive_node_remove",
     "write_xml", "write_alh"}

\* tree.name for an AlarmTree: a name the class does not define raises
\* AttributeError
alarmtree_attribute(name) ==
    IF name \in AlarmTreeMethods THEN Returned(name)
    ELSE Raised("AttributeError")

\* the loop of parse_alh over the lines of a file from the i-th: the world
\* after the last line, or the exception of a line
RECURSIVE parse_lines(_, _, _, _, _, _)
RECURSIVE parse_after(_, _, _)
parse_lines(file, i, w, current, data, last) ==
    IF i > Len(file) THEN [w |-> w, exc |-> None]
    ELSE parse_after(file, i, parse_line(w, current, data, last, file[i]))

parse_after(file, i, r) ==
    IF r.exc # None THEN [w |-> r.w, exc |-> r.exc]
    ELSE parse_lines(file, i + 1, r.w, r.node, r.data, r.last)

\* parse_alh(path, configName) for a file with these lines
parse_alh(file, configName, objects, uuids) ==
    parse_lines(file, 1, World(AlarmTreeInit(configName), objects, uuids),
                configName, None, None)

\* the InclusionMarker nodes of baseTree.all_nodes()
InclusionNodes(tree) ==
    {nid \in DOMAIN tree.nodes :
         tree.nodes[nid].node.cls = "InclusionMarker"}

\* paste_subtree_into_base: RuntimeError unless the subtree has one node
\* under its root; then subTree.remove_subtree and baseTree.paste are
\* looked up, and the marker is removed
paste_subtree_into_base(baseTree, subTree, inclusionId) ==
    IF Len(children(subTree, subTree.root)) # 1
    THEN TreeResult(baseTree, "RuntimeError", None, 0)
    ELSE IF alarmtree_attribute("remove_subtree").exc # None
    THEN TreeResult(baseTree, alarmtree_attribute("remove_subtree").exc,
                    None, 0)
    ELSE IF alarmtree_attribute("paste").exc # None
    THEN TreeResult(baseTree, alarmtree_attribute("paste").exc, None, 0)
    ELSE remove_node(baseTree, inclusionId)

\* recursive_alh_parse with singleFile=True, the body of the loop for one
\* inclusion whose file has these lines and includes no file itself
include_single_file(baseTree, subTree, inclusionId) ==
    IF subTree.exc # None THEN TreeResult(baseTree, subTree.exc, None, 0)
    ELSE paste_subtree_into_base(baseTree, subTree.w.tree, inclusionId)

\* the depth of calls at which Python raises RecursionError
RecursionLimit == 3

\* a call of recursive_alh_parse that has reached its loop: the base tree,
\* the inclusions not yet handled, the output path and the options
Frame(tree, pending, outPath, singleFile, overwrite) ==
    [tree |-> tree, pending |-> pending, outPath |-> outPath,
     singleFile |-> singleFile, overwrite |-> overwrite]

\* the outcome of recursive_alh_parse up to its loop
Entered(exc, frame, objects, uuids) ==
    [exc |-> exc, frame |-> frame, heap |-> objects, uuid |-> uuids]

\* recursive_alh_parse: the InclusionMarker nodes of baseTree.all_nodes(),
\* in the order they were added, which is the order of their uuids
RECURSIVE inclusion_nodes(_, _, _)
inclusion_nodes(tree, from, to) ==
    IF from >= to THEN <<>>
    ELSE (IF uuid1(from) \in DOMAIN tree.nodes THEN <<uuid1(from)>>
          ELSE <<>>) \o inclusion_nodes(tree, from + 1, to)

\* recursive_alh_parse after parse_alh
alh_parsed(parsed, uuids, outPath, singleFile, ignoreExisting) ==
    IF parsed.exc # None
    THEN Entered(parsed.exc, None, parsed.w.heap, parsed.w.uuid)
    ELSE Entered(None,
                 Frame(parsed.w.tree,
                       inclusion_nodes(parsed.w.tree, uuids, parsed.w.uuid),
                       outPath, singleFile, ~ignoreExisting),
                 parsed.w.heap, parsed.w.uuid)

\* recursive_alh_parse up to its loop; sources gives the lines of the
\* files that exist
recursive_alh_parse(sources, inPath, outPath, singleFile, configName, ignoreExisting, objects, uuids) ==
    IF singleFile /\ ignoreExisting
    THEN Entered("ValueError", None, objects, uuids)
    ELSE IF inPath \notin DOMAIN sources
    THEN Entered("FileNotFoundError", None, objects, uuids)
    ELSE alh_parsed(parse_alh(sources[inPath], configName, objects, uuids),
                    uuids, outPath, singleFile, ignoreExisting)

\* the name of the file of an inclusion
inclusion_filename(frame) == frame.tree.nodes[frame.pending[1]].node.filename

\* recursive_alh_parse: subOutPath, in the directory of the output
sub_out_path(frame) == splitext_root(inclusion_filename(frame)) \o ".xml"

\* recursive_alh_parse: the test that lets an inclusion be converted
converts_inclusion(frame, outputs) ==
    frame.overwrite \/ sub_out_path(frame) \notin outputs

\* a loop that puts the inclusion it has handled behind the others
inclusion_requeued(stack) ==
    [stack EXCEPT ![Len(stack)].pending = Tail(@) \o <<Head(@)>>]

\* the stack with the first pending inclusion of the topmost call taken off
inclusion_done(stack) ==
    [stack EXCEPT ![Len(stack)].pending = Tail(@)]

-----------------------------------------------------------------------------
(* The tree API driven by a client *)

\* names of groups, PVs and files the client uses; "R/a" is also the
\* identifier of the group a under the root
Names == {"a", "b"}

PVNames == {"R/a"}

FileNames == {"f.alh"}

\* sort keys the client gives to groups, PVs and inclusions
GroupKeys == {"0"}

PVKeys == {"1"}

InclusionKeys == {"2"}

\* an identifier no node ever has
Ghost == "ghost"

\* what a client passes as a node or parent: a node of the tree, a node
\* that is not in the tree, or nothing
NodeArgs == (DOMAIN alarmTree.nodes) \cup {Ghost, None}

\* the record of a call: the method, its argument (the name, PV or file to
\* create, the node to remove or link past), the parent and sort key given,
\* the exception it raised, and the identifier and number it returned
Call(op, arg, parent, sortKey, res) ==
    [op |-> op, arg |-> arg, parent |-> parent, sortKey |-> sortKey,
     exc |-> res.exc, id |-> res.id, count |-> res.count]

NoCall ==
    Call("none", None, None, "0", [exc |-> None, id |-> None, count |-> 0])

Init ==
    /\ alarmTree = AlarmTreeInit(ConfigName)
    /\ uuidCount = 0
    /\ call = NoCall
    /\ heap = <<>>
    /\ currentNode = None
    /\ continueData = None
    /\ lastCall = None
    /\ line = ""
    /\ lineno = 0
    /\ status = "idle"
    /\ error = None
    /\ frames = <<>>
    /\ disk = NoDisk

Size(tree) == Cardinality(DOMAIN tree.nodes)

\* the identifier create_node computes for a group
GroupId(tree, name, parent) ==
    (IF parent = None THEN tree.root ELSE parent) \o "/" \o name

CreateNode(keys, limit) ==
    \E name \in Names, parent \in NodeArgs, sortKey \in keys :
        LET res == create_node(alarmTree, name, parent, None, sortKey) IN
        /\ Size(alarmTree) < limit
        /\ Len(GroupId(alarmTree, name, parent)) <= MaxIdLen
        /\ alarmTree' = res.tree
        /\ call' = Call("create_node", name, parent, sortKey, res)
        /\ UNCHANGED <<uuidCount, parserVars>>

CreateAlarm(pvs, keys, limit) ==
    \E pv \in pvs, parent \in NodeArgs, sortKey \in keys :
        LET res == create_alarm(alarmTree, pv, parent, sortKey) IN
        /\ Size(alarmTree) < limit
        /\ alarmTree' = res.tree
        /\ call' = Call("create_alarm", pv, parent, sortKey, res)
        /\ UNCHANGED <<uuidCount, parserVars>>

CreateInclusion(keys, limit) ==
    \E file \in FileNames, parent \in NodeArgs, sortKey \in keys :
        LET res == create_inclusion(alarmTree, file, parent, sortKey,
                                    uuidCount) IN
        /\ Size(alarmTree) < limit
        /\ uuidCount < MaxUuid
        /\ alarmTree' = res.tree
        /\ uuidCount' = uuidCount + 1
        /\ call' = Call("create_inclusion", file, parent, sortKey, res)
        /\ UNCHANGED parserVars

RemoveNode ==
    \E node \in NodeArgs \ {None} :
        LET res == remove_node(alarmTree, node) IN
        /\ alarmTree' = res.tree
        /\ call' = Call("remove_node", node, None, "0", res)
        /\ UNCHANGED <<uuidCount, parserVars>>

LinkPastNode ==
    \E node \in NodeArgs \ {None} :
        LET res == link_past_node(alarmTree, node) IN
        /\ alarmTree' = res.tree
        /\ call' = Call("link_past_node", node, None, "0", res)
        /\ UNCHANGED <<uuidCount, parserVars>>

Next ==
    \/ CreateNode(GroupKeys, MaxNodes)
    \/ CreateAlarm(PVNames, PVKeys, MaxNodes)
    \/ CreateInclusion(InclusionKeys, MaxNodes)
    \/ RemoveNode
    \/ LinkPastNode

Spec == Init /\ [][Next]_vars

\* A client that gives every kind of sort key: numbers, numeric strings and
\* the strings of test_string_int
KeyPVNames == {"pv1", "pv2", "pv3"}

MixedKeys == {"0.1", "1", "A", "a"}

NextKeys ==
    \/ CreateAlarm(KeyPVNames, MixedKeys, MaxNodes)
    \/ RemoveNode
    \/ LinkPastNode

SpecKeys == Init /\ [][NextKeys]_vars

-----------------------------------------------------------------------------
(* parse_alh reading a file line by line *)

\* lines every handler accepts, a comment and a blank line
WellFormedLines ==
    {"GROUP NULL G\n", "CHANNEL G pv1 ---T-\n", "CHANNEL NULL pv1\n",
     "$ALIAS desc\n", "$COMMAND /bin/run.sh x\n", "# comment\n", "\n"}

\* lines with an unknown keyword, a wrong number of arguments, a missing
\* or non-numeric force value, an empty command
MalformedLines ==
    {"BOGUS x\n", "GROUP G\n", "CHANNEL G\n", "INCLUDE G\n",
     "$SEVRCOMMAND UP_ANY\n", "$ALARMCOUNTFILTER 5\n",
     "$FORCEPV pv2 -D---\n", "$FORCEPV pv2 -D--- x NE\n", "$COMMAND\n"}

\* parse_alh up to the loop: an empty tree, the root as the current node
InitParse ==
    /\ alarmTree = AlarmTreeInit(ConfigName)
    /\ uuidCount = 0
    /\ call = NoCall
    /\ heap = <<>>
    /\ currentNode = ConfigName
    /\ continueData = None
    /\ lastCall = None
    /\ line = ""
    /\ lineno = 0
    /\ status = "running"
    /\ error = None
    /\ frames = <<>>
    /\ disk = NoDisk

\* the assignments of one iteration of the loop
Iterate(r, text) ==
    /\ alarmTree' = r.w.tree
    /\ heap' = r.w.heap
    /\ uuidCount' = r.w.uuid
    /\ currentNode' = r.node
    /\ continueData' = r.data
    /\ lastCall' = r.last
    /\ line' = text
    /\ lineno' = lineno + 1
    /\ status' = IF r.exc = None THEN "running" ELSE "raised"
    /\ error' = r.exc
    /\ UNCHANGED <<call, frames, disk>>

\* one iteration of the loop: the file's next line is any of lines
ParseLine(lines, limit) ==
    \E text \in lines :
        /\ status = "running"
        /\ lineno < limit
        /\ Iterate(parse_line(World(alarmTree, heap, uuidCount), currentNode,
                              continueData, lastCall, text), text)

\* the file has no more lines: parse_alh returns the tree
EndOfFile ==
    /\ status = "running"
    /\ status' = "returned"
    /\ UNCHANGED <<alarmTree, uuidCount, call, heap, currentNode,
                   continueData, lastCall, line, lineno, error, frames, disk>>

NextParse ==
    \/ ParseLine(WellFormedLines \cup MalformedLines, MaxLines)
    \/ EndOfFile

SpecParse == InitParse /\ [][NextParse]_vars

-----------------------------------------------------------------------------
(* Properties of the tree API *)

\* how often x occurs in the sequence s
Count(s, x) == Cardinality({i \in 1..Len(s) : s[i] = x})

\* the nodes reached from the set S by following child lists
RECURSIVE ReachDown(_, _)
ReachDown(tree, S) ==
    LET T == S \cup UNION {Range(tree.nodes[n].children) :
                              n \in S \cap DOMAIN tree.nodes}
    IN IF T = S THEN S ELSE ReachDown(tree, T)

\* the nodes below nid, by parent links
RECURSIVE Below(_, _)
Below(tree, S) ==
    LET T == S \cup {c \in DOMAIN tree.nodes : tree.nodes[c].parentId \in S}
    IN IF T = S THEN S ELSE Below(tree, T)

Descendants(tree, nid) == Below(tree, {nid}) \ {nid}

\* the elements of s that are in S, in the order of s
Restrict(s, S) == SelectSeq(s, LAMBDA x : x \in S)

WellFormed(tree) ==
    LET N == DOMAIN tree.nodes IN
    /\ tree.root \in N
    /\ {n \in N : tree.nodes[n].parentId = None} = {tree.root}
    /\ \A n \in N : tree.nodes[n].node.identifier = n
    /\ \A n \in N \ {tree.root} :
          /\ tree.nodes[n].parentId \in N
          /\ Count(tree.nodes[tree.nodes[n].parentId].children, n) = 1
    /\ \A n \in N : \A c \in Range(tree.nodes[n].children) :
          /\ c \in N
          /\ tree.nodes[c].parentId = n
    /\ ReachDown(tree, {tree.root}) = N

\* C1: after any sequence of create_node, create_alarm, create_inclusion,
\* remove_node and link_past_node calls, successful or failing, the tree is
\* well formed: one root, which alone has no parent; every other node has a
\* parent in the tree that lists it exactly once; every identifier in a child
\* list names a node whose parent is the owner of the list; every node is
\* reachable from the root.
C1_TreeWellFormed == WellFormed(alarmTree)

\* C1 witness: a tree of three levels reached after a node was removed or
\* linked past
C1_Witness ==
    /\ call.op \in {"remove_node", "link_past_node"}
    /\ call.exc = None
    /\ \E n \in DOMAIN alarmTree.nodes :
          /\ alarmTree.nodes[n].parentId \notin {None, alarmTree.root}
    /\ Size(alarmTree) >= 3

\* the parent a create call resolves: the root when none is given
ResolvedParent(tree, parent) == IF parent = None THEN tree.root ELSE parent

C3_RemoveSubtree ==
    [][(/\ call'.op = "remove_node"
        /\ call'.arg \in DOMAIN alarmTree.nodes
        /\ call'.arg # alarmTree.root)
       => LET nid == call'.arg
              pid == alarmTree.nodes[nid].parentId
              gone == {nid} \cup Descendants(alarmTree, nid)
              kept == DOMAIN alarmTree.nodes \ gone
          IN /\ call'.exc = None
             /\ DOMAIN alarmTree'.nodes = kept
             /\ call'.count = 1 + Cardinality(Descendants(alarmTree, nid))
             /\ nid \notin Range(alarmTree'.nodes[pid].children)
             /\ alarmTree'.nodes[pid].children =
                    Restrict(alarmTree.nodes[pid].children, kept)
             /\ \A k \in kept \ {pid} :
                    alarmTree'.nodes[k] = alarmTree.nodes[k]
             /\ alarmTree'.nodes[pid].node = alarmTree.nodes[pid].node
             /\ alarmTree'.nodes[pid].parentId = alarmTree.nodes[pid].parentId
      ]_vars

\* C3 witness: a node with two descendants was removed, other nodes remain
C3_Witness ==
    /\ call.op = "remove_node"
    /\ call.exc = None
    /\ call.count = 3
    /\ Size(alarmTree) >= 1

\* C4: remove_node and link_past_node on the root raise
\* RootNodeRemovalError and leave the tree unchanged.
C4_RootProtected ==
    [][(/\ call'.op \in {"remove_node", "link_past_node"}
        /\ call'.arg = alarmTree.root)
       => (call'.exc = "RootNodeRemovalError" /\ alarmTree' = alarmTree)
      ]_vars

\* C4 witness: link_past_node on the root of a tree with children failed
C4_Witness ==
    /\ call.op = "link_past_node"
    /\ call.arg = alarmTree.root
    /\ call.exc = "RootNodeRemovalError"
    /\ Size(alarmTree) >= 3

\* C4 witness for remove_node
C4_WitnessRemove ==
    /\ call.op = "remove_node"
    /\ call.arg = alarmTree.root
    /\ call.exc = "RootNodeRemovalError"
    /\ Size(alarmTree) >= 3

\* C5: link_past_node on a node n of the tree other than the root returns;
\* it removes n and no other node; the former children of n are children of
\* n's former parent, in their original relative order, behind the children
\* the parent kept; each promoted child keeps its node object (sortKey and
\* data) and its own child list; every other entry is unchanged.
C5_LinkPast ==
    [][(/\ call'.op = "link_past_node"
        /\ call'.arg \in DOMAIN alarmTree.nodes
        /\ call'.arg # alarmTree.root)
       => LET nid == call'.arg
              pid == alarmTree.nodes[nid].parentId
              cids == alarmTree.nodes[nid].children
              kept == DOMAIN alarmTree.nodes \ {nid}
          IN /\ call'.exc = None
             /\ DOMAIN alarmTree'.nodes = kept
             /\ Size(alarmTree') = Size(alarmTree) - 1
             /\ \A c \in Range(cids) :
                    /\ alarmTree'.nodes[c].parentId = pid
                    /\ alarmTree'.nodes[c].node = alarmTree.nodes[c].node
                    /\ alarmTree'.nodes[c].children =
                           alarmTree.nodes[c].children
             /\ Restrict(alarmTree'.nodes[pid].children, Range(cids)) = cids
             /\ Restrict(alarmTree'.nodes[pid].children,
                         kept \ Range(cids)) =
                    Restrict(alarmTree.nodes[pid].children, kept)
             /\ alarmTree'.nodes[pid].node = alarmTree.nodes[pid].node
             /\ alarmTree'.nodes[pid].parentId = alarmTree.nodes[pid].parentId
             /\ \A k \in kept \ (Range(cids) \cup {pid}) :
                    alarmTree'.nodes[k] = alarmTree.nodes[k]
      ]_vars

\* C5 witness: a node with the two children a and b was linked past; its
\* former parent lists both, a before b
C5_Witness ==
    /\ call.op = "link_past_node"
    /\ call.exc = None
    /\ call.arg \notin DOMAIN alarmTree.nodes
    /\ \E p \in DOMAIN alarmTree.nodes :
          LET cs == alarmTree.nodes[p].children IN
          \E i, j \in 1..Len(cs) :
              /\ i < j
              /\ cs[i] = GroupId(alarmTree, "a", call.arg)
              /\ cs[j] = GroupId(alarmTree, "b", call.arg)

\* C5 witness: a promoted child kept a child of its own
C5_WitnessGrandchild ==
    /\ call.op = "link_past_node"
    /\ call.exc = None
    /\ \E name \in Names :
          LET c == GroupId(alarmTree, name, call.arg) IN
          /\ c \in DOMAIN alarmTree.nodes
          /\ alarmTree.nodes[c].parentId = alarmTree.root
          /\ alarmTree.nodes[c].children # <<>>

\* the sort keys of a sequence of nodes ascend
Ascending(s) == \A i, j \in 1..Len(s) : i < j => s[i].sortKey <= s[j].sortKey

\* the position of the node with identifier id in a sequence of nodes
PositionOf(s, id) == CHOOSE i \in 1..Len(s) : s[i].identifier = id

\* s is t reordered by ascending sort key, equal keys in the order of t
StablySorted(s, t) ==
    /\ Len(s) = Len(t)
    /\ Range(s) = Range(t)
    /\ Ascending(s)
    /\ \A i, j \in 1..Len(s) :
          (i < j /\ s[i].sortKey = s[j].sortKey)
          => PositionOf(t, s[i].identifier) < PositionOf(t, s[j].identifier)

\* C6 as stated: children(id) returns the direct children ordered by
\* ascending sortKey.
C6_ChildrenSorted ==
    \A n \in DOMAIN alarmTree.nodes : Ascending(children(alarmTree, n))

\* C6 as amended: children(id) returns the direct children in the order of
\* the child list, to which a created node is appended; the exports
\* (get_element_tree, get_alh_lines) visit them by ascending sortKey, equal
\* keys in the order of the child list.
C6_ExportSorted ==
    /\ [](\A n \in DOMAIN alarmTree.nodes :
            /\ [i \in 1..Len(children(alarmTree, n)) |->
                   children(alarmTree, n)[i].identifier]
                   = alarmTree.nodes[n].children
            /\ StablySorted(export_children(alarmTree, n),
                            children(alarmTree, n)))
    /\ [][(call'.op = "create_alarm" /\ call'.exc = None)
          => LET pid == ResolvedParent(alarmTree, call'.parent) IN
             alarmTree'.nodes[pid].children =
                 Append(alarmTree.nodes[pid].children, call'.id)
         ]_vars

\* C6 witness: three children whose child list is not in key order and
\* holds two equal keys
C6_Witness ==
    \E n \in DOMAIN alarmTree.nodes :
        LET cs == children(alarmTree, n) IN
        /\ Len(cs) = 3
        /\ cs[1].sortKey = cs[3].sortKey
        /\ cs[2].sortKey < cs[1].sortKey
        /\ export_children(alarmTree, n) # cs

\* C7: a node can be created with any sort key of MixedKeys, numeric or
\* not: a create call on a parent of the tree fails only for a duplicate
\* identifier.
C7_MixedKeysCreate ==
    (/\ call.op = "create_alarm"
     /\ ResolvedParent(alarmTree, call.parent) \in DOMAIN alarmTree.nodes)
    => call.exc \in {None, "DuplicatedNodeIdError"}

-----------------------------------------------------------------------------
(* Properties of parse_alh *)

\* the step reads a line with a keyword: no continuation was requested
ReadsLine == lineno' = lineno + 1 /\ continueData = None

\* the words after the keyword of a line
LineArgs(text) == str_split(split_keyword(str_strip(text)).alhArgs)

\* the keyword of a line
LineKeyword(text) == split_keyword(str_strip(text)).keyword

\* the identifier a GROUP line computes for its group, None when the line
\* is no GROUP line with two arguments and a parent find_parent finds
GroupLineId(text, tree, current) ==
    IF LineKeyword(text) # "GROUP" \/ Len(LineArgs(text)) # 2 THEN None
    ELSE IF find_parent(tree, current, LineArgs(text)[1]).exc # None
    THEN None
    ELSE GroupId(tree, LineArgs(text)[2],
                 find_parent(tree, current, LineArgs(text)[1]).val)

\* the PV name of a CHANNEL line, None when the line is no CHANNEL line
\* with a parent find_parent finds and a PV name
ChannelLinePV(text, tree, current) ==
    IF LineKeyword(text) # "CHANNEL" \/ Len(LineArgs(text)) < 2 THEN None
    ELSE IF find_parent(tree, current, LineArgs(text)[1]).exc # None
    THEN None
    ELSE LineArgs(text)[2]

\* C8: a malformed line never aborts parse_alh: after a line of
\* MalformedLines the parse goes on with the tree and the current node as
\* they were before the line.
C8_MalformedLineSkipped ==
    [][(ReadsLine /\ line' \in MalformedLines)
       => /\ status' = "running"
          /\ alarmTree' = alarmTree
          /\ currentNode' = currentNode
      ]_vars

\* C9: a GROUP line whose computed identifier is already in the tree does
\* not abort the parse, adds no node and makes the existing group the
\* current node.
C9_DuplicateGroupMerged ==
    [][(/\ ReadsLine
        /\ GroupLineId(line', alarmTree, currentNode)
               \in DOMAIN alarmTree.nodes)
       => /\ status' = "running"
          /\ DOMAIN alarmTree'.nodes = DOMAIN alarmTree.nodes
          /\ currentNode' = GroupLineId(line', alarmTree, currentNode)
      ]_vars

\* C10: a CHANNEL line whose PV name is already in the tree is not fatal,
\* adds no node, makes the existing channel the current node and leaves it
\* under its parent.
C10_DuplicateChannelMerged ==
    [][(/\ ReadsLine
        /\ ChannelLinePV(line', alarmTree, currentNode)
               \in DOMAIN alarmTree.nodes)
       => /\ status' = "running"
          /\ DOMAIN alarmTree'.nodes = DOMAIN alarmTree.nodes
          /\ currentNode' = ChannelLinePV(line', alarmTree, currentNode)
          /\ parent_of(alarmTree',
                       ChannelLinePV(line', alarmTree, currentNode))
                 = parent_of(alarmTree,
                             ChannelLinePV(line', alarmTree, currentNode))
      ]_vars

-----------------------------------------------------------------------------
(* Keywords without an equivalent *)

\* lines with the four keywords without an equivalent
UnsupportedLines ==
    {"$HEARTBEATPV hb:pv\n", "$ACKPV ack:pv 1\n", "$BEEPSEVERITY MAJOR\n",
     "$BEEPSEVR MAJOR\n"}

NextUnsupported ==
    \/ ParseLine({"GROUP NULL G\n", "GROUP G S\n", "CHANNEL G pv1\n",
                "$COMMAND run x\n"}
                     \cup UnsupportedLines, MaxLines)
    \/ EndOfFile

SpecUnsupported == InitParse /\ [][NextUnsupported]_vars

\* C11: a $HEARTBEATPV, $ACKPV, $BEEPSEVERITY or $BEEPSEVR line changes
\* neither the tree nor the current node, and the parse goes on after it.
C11_UnsupportedSkipped ==
    [][(ReadsLine /\ line' \in UnsupportedLines)
       => /\ status' = "running"
          /\ alarmTree' = alarmTree
          /\ heap' = heap
          /\ currentNode' = currentNode
      ]_vars

-----------------------------------------------------------------------------
(* Multi-line guidance *)

\* a group, the two forms of $GUIDANCE, the terminator, a blank line and
\* a comment line
GuidanceLines ==
    {"GROUP NULL G\n", "$GUIDANCE\n", "$GUIDANCE http://x\n", "$END\n",
     "\n", "# c\n"}

NextGuidance ==
    \/ ParseLine(GuidanceLines, MaxLines + 2)
    \/ EndOfFile

SpecGuidance == InitParse /\ [][NextGuidance]_vars

\* the step reads a line while a continuation is pending
ReadsContinuation == lineno' = lineno + 1 /\ continueData # None

\* the current node is a group or a channel
AtAlarmNode == IsAlarmNode(NodeOf(World(alarmTree, heap, uuidCount),
                                  currentNode))

\* C12: while a $GUIDANCE continuation is pending every line without $END
\* is appended unchanged to the accumulator and nothing else changes; the
\* first line with $END attaches the accumulated text as one guidance to
\* the current node (a group or a channel) and clears the continuation;
\* a $GUIDANCE line without text starts the continuation with an empty
\* accumulator, one with text attaches a display and starts none.
C12_GuidanceContinuation ==
    /\ [][(ReadsContinuation /\ ~str_contains(line', "$END"))
          => /\ continueData' = continueData \o line'
             /\ status' = "running"
             /\ <<alarmTree, heap, currentNode, lastCall>>' =
                    <<alarmTree, heap, currentNode, lastCall>>
         ]_vars
    /\ [][(ReadsContinuation /\ str_contains(line', "$END") /\ AtAlarmNode)
          => /\ continueData' = None
             /\ status' = "running"
             /\ currentNode' = currentNode
             /\ alarmTree' =
                    [alarmTree EXCEPT !.nodes[currentNode].node.guidances =
                         Append(@, [title |-> "help",
                                    details |-> continueData])]
         ]_vars
    /\ [][(ReadsLine /\ LineKeyword(line') = "$GUIDANCE" /\ AtAlarmNode)
          => /\ status' = "running"
             /\ currentNode' = currentNode
             /\ IF LineArgs(line') = <<>>
                THEN continueData' = "" /\ alarmTree' = alarmTree
                ELSE /\ continueData' = None
                     /\ alarmTree' =
                            [alarmTree EXCEPT
                                 !.nodes[currentNode].node.displays =
                                     Append(@, [title |-> "URL",
                                                details |->
                                                    LineArgs(line')[1]])]
         ]_vars

\* C12 witness: a GROUP line was accumulated and not dispatched, $END
\* attached it as the one guidance of the group, and the line after it was
\* dispatched as a keyword again
C12_Witness ==
    /\ "R/G" \in DOMAIN alarmTree.nodes
    /\ alarmTree.nodes["R/G"].node.guidances =
           <<[title |-> "help", details |-> "GROUP NULL G\n"]>>
    /\ DOMAIN alarmTree.nodes = {"R", "R/G"}
    /\ line = "$GUIDANCE http://x\n"
    /\ Len(alarmTree.nodes["R/G"].node.displays) = 1
    /\ continueData = None

-----------------------------------------------------------------------------
(* $ALIAS *)

\* a group, a group, an inclusion and a channel under it, two aliases and
\* a command
AliasLines ==
    {"GROUP NULL G\n", "GROUP G G\n", "INCLUDE G f.alh\n",
     "CHANNEL G pv1\n", "$ALIAS A\n", "$ALIAS B\n", "$COMMAND run x\n"}

NextAlias ==
    \/ ParseLine(AliasLines, MaxLines + 1)
    \/ EndOfFile

SpecAlias == InitParse /\ [][NextAlias]_vars

\* the step reads a $ALIAS line whose alias is not the name of the current
\* node, a group
RenamesGroup ==
    /\ ReadsLine
    /\ LineKeyword(line') = "$ALIAS"
    /\ alarmTree.nodes[currentNode].node.cls = "AlarmNode"
    /\ alarmTree.nodes[currentNode].node.name #
           str_strip(split_keyword(str_strip(line')).alhArgs)

\* C13: a $ALIAS line on a group with children whose alias differs from
\* its name changes neither the tree nor the current node.
C13_AliasWithChildren ==
    [][(RenamesGroup /\ children(alarmTree, currentNode) # <<>>)
       => /\ status' = "running"
          /\ alarmTree' = alarmTree
          /\ currentNode' = currentNode
      ]_vars

\* C13 witness: the current node is a group with a child and the last
\* line is a $ALIAS with another name
C13_Witness ==
    /\ line = "$ALIAS A\n"
    /\ status = "running"
    /\ currentNode = "R/G"
    /\ alarmTree.nodes["R/G"].node.name = "G"
    /\ Len(alarmTree.nodes["R/G"].children) = 1

\* the alias of a $ALIAS line
LineAlias(text) == str_strip(split_keyword(str_strip(text)).alhArgs)

\* C14: a $ALIAS line on a channel sets its description; on a childless
\* group whose name differs it makes a node with the same parent, the
\* alias as name, the tag of the group (the name of its GROUP line, kept
\* through every $ALIAS) and the group's guidances, commands, displays and
\* actions, and makes it the current node.
C14_AliasRenames ==
    /\ [][(/\ ReadsLine
           /\ LineKeyword(line') = "$ALIAS"
           /\ alarmTree.nodes[currentNode].node.cls = "AlarmPV")
          => /\ status' = "running"
             /\ currentNode' = currentNode
             /\ alarmTree' = [alarmTree EXCEPT
                                  !.nodes[currentNode].node.desc =
                                      LineAlias(line')]
         ]_vars
    /\ [][(RenamesGroup /\ children(alarmTree, currentNode) = <<>>)
          => /\ status' = "running"
             /\ currentNode' \in DOMAIN alarmTree'.nodes
             /\ currentNode \notin DOMAIN alarmTree'.nodes
             /\ parent_of(alarmTree', currentNode') =
                    parent_of(alarmTree, currentNode)
             /\ LET old == alarmTree.nodes[currentNode].node
                    new == alarmTree'.nodes[currentNode'].node
                IN /\ new.name = LineAlias(line')
                   /\ new.tag = old.tag
                   /\ new.guidances = old.guidances
                   /\ new.commands = old.commands
                   /\ new.displays = old.displays
                   /\ new.actions = old.actions
         ]_vars

\* the identifiers from a node up to the root
RECURSIVE PathUp(_, _)
PathUp(tree, n) ==
    IF n = None THEN <<>> ELSE <<n>> \o PathUp(tree, parent_of(tree, n))

\* the parent names find_parent is asked for: tags, identifiers and
\* displayed names of the nodes of SpecAlias
ParentNames == {"NULL", "G", "A", "B", "R", "R/G", "R/A", "pv1"}

\* C15: find_parent returns None for NULL; for another name it returns the
\* first node on the path from the current node up to the root whose tag is
\* that name; the tag decides, not the identifier or the displayed name.
C15_FindParent ==
    status = "running" =>
        \A name \in ParentNames :
            LET path == PathUp(alarmTree, currentNode)
                found == find_parent(alarmTree, currentNode, name)
                tagged == {i \in 1..Len(path) :
                               alarmTree.nodes[path[i]].node.tag = name}
            IN IF name = "NULL" THEN found = Returned(None)
               ELSE IF tagged = {} THEN found.exc = "AttributeError"
               ELSE /\ found.exc = None
                    /\ \E i \in tagged : /\ found.val = path[i]
                                         /\ \A j \in tagged : i <= j

\* C15 witness: a CHANNEL line naming G put its channel under the nearest
\* node with the tag G, whose identifier is R/G/A and whose name is A,
\* not under R/G
C15_Witness ==
    /\ line = "CHANNEL G pv1\n"
    /\ status = "running"
    /\ "pv1" \in DOMAIN alarmTree.nodes
    /\ parent_of(alarmTree, "pv1") = "R/G/A"
    /\ alarmTree.nodes["R/G/A"].node.tag = "G"
    /\ alarmTree.nodes["R/G"].node.tag = "G"

-----------------------------------------------------------------------------
(* Filter inheritance *)

\* a group, its alias, a force PV, a nested group and channels under both
FilterLines ==
    {"GROUP NULL G\n", "$ALIAS A\n", "$FORCEPV pv9 -D--- 1 NE\n",
     "GROUP G S\n", "CHANNEL S pv1\n", "CHANNEL G pv2\n"}

NextFilter ==
    \/ ParseLine(FilterLines, MaxLines + 2)
    \/ EndOfFile

SpecFilter == InitParse /\ [][NextFilter]_vars

\* the node carries a filter: its filter attribute is an AlarmFilter object
CarriesFilter(tree, nid) ==
    /\ HasAttr(tree.nodes[nid].node, "filter")
    /\ tree.nodes[nid].node.filter # ""

\* C16: a group or channel a GROUP or CHANNEL line creates under a group
\* or channel that carries a filter has that same filter, and one created
\* under a group or channel without filter carries none.
C16_FilterInherited ==
    [][(/\ ReadsLine
        /\ LineKeyword(line') \in {"GROUP", "CHANNEL"}
        /\ status' = "running"
        /\ IsAlarmNode(alarmTree'.nodes[parent_of(alarmTree',
                                                  currentNode')].node))
       => LET pid == parent_of(alarmTree', currentNode') IN
          /\ pid \in DOMAIN alarmTree.nodes
          /\ alarmTree'.nodes[pid] =
                 [alarmTree.nodes[pid] EXCEPT
                      !.children = Append(@, currentNode')]
          /\ heap' = heap
          /\ IF CarriesFilter(alarmTree, pid)
             THEN /\ CarriesFilter(alarmTree', currentNode')
                  /\ alarmTree'.nodes[currentNode'].node.filter =
                         alarmTree.nodes[pid].node.filter
             ELSE ~CarriesFilter(alarmTree', currentNode')
      ]_vars

\* C16 witness: the group was renamed before it got its filter, the group
\* created under its tag G has the filter, and so has the channel created
\* under that group
C16_Witness ==
    /\ line = "CHANNEL S pv1\n"
    /\ status = "running"
    /\ DOMAIN alarmTree.nodes = {"R", "R/A", "R/A/S", "pv1"}
    /\ \A n \in {"R/A", "R/A/S", "pv1"} : CarriesFilter(alarmTree, n)
    /\ alarmTree.nodes["R/A"].node.filter = "AlarmFilter@1"
    /\ alarmTree.nodes["R/A/S"].node.filter = "AlarmFilter@1"
    /\ alarmTree.nodes["pv1"].node.filter = "AlarmFilter@1"
    /\ heap[1].expr = "pv9"

-----------------------------------------------------------------------------
(* A calculated force PV *)

\* a group, its alias, a calculation over two slots and a channel
CalcFile ==
    <<"GROUP NULL Group\n",
      "$ALIAS Group Name\n",
      "$FORCEPV CALC -D-T- 1 NE\n",
      "$FORCEPV_CALC A<B\n",
      "$FORCEPV_CALC_A test:ai3\n",
      "$FORCEPV_CALC_B 4\n",
      "\n",
      "CHANNEL Group test:ai1 ---T-\n">>

\* where the line read last stands in the file, 0 before the first line
RECURSIVE FilePosition(_, _, _)
FilePosition(file, text, n) ==
    IF n = 0 \/ file[n] = text THEN n ELSE FilePosition(file, text, n - 1)

\* one iteration of the loop over a file that holds the lines of CalcFile
\* in their order, any of them left out
ParseCalcLine ==
    \E k \in 1..Len(CalcFile) :
        /\ status = "running"
        /\ k > FilePosition(CalcFile, line, Len(CalcFile))
        /\ Iterate(parse_line(World(alarmTree, heap, uuidCount), currentNode,
                              continueData, lastCall, CalcFile[k]),
                   CalcFile[k])

NextCalc ==
    \/ ParseCalcLine
    \/ EndOfFile

SpecCalc == InitParse /\ [][NextCalc]_vars

\* the channels of the tree
Channels(tree) ==
    {nid \in DOMAIN tree.nodes : tree.nodes[nid].node.cls = "AlarmPV"}

\* the filter string of a node that carries a filter
NodeFilterString(tree, objects, nid) ==
    get_phoebus_filter(
        objects[AddressIndex(tree.nodes[nid].node.filter, Len(objects))])

-----------------------------------------------------------------------------
(* Channel masks *)

\* the masks make_mask writes, and masks with the letters it never writes
\* or with a single C or D
ChannelMasks ==
    {make_mask(enabled, latch) : enabled \in BOOLEAN, latch \in BOOLEAN}
        \cup {"--A-L", "C----", "-D---", "CDATL"}

\* a group and channels under it and under the root, with every mask
MaskLines ==
    {"GROUP NULL G\n"}
        \cup {"CHANNEL G pv1 " \o mask \o "\n" : mask \in ChannelMasks}
        \cup {"CHANNEL NULL pv2 " \o mask \o "\n" : mask \in ChannelMasks}

NextMask ==
    \/ ParseLine(MaskLines, MaxLines)
    \/ EndOfFile

SpecMask == InitParse /\ [][NextMask]_vars

\* the channel has the flags
HasFlags(node, enabled, latch) ==
    /\ node.cls = "AlarmPV"
    /\ node.enabled = enabled
    /\ node.latch = latch

\* C18: the channel a CHANNEL line with a mask creates is disabled exactly
\* when the mask holds a C or a D and latches exactly when it holds no T,
\* so a mask make_mask(enabled, latch) wrote gives it these two flags.
C18_MaskRoundTrip ==
    [][(/\ ReadsLine
        /\ LineKeyword(line') = "CHANNEL"
        /\ Len(LineArgs(line')) = 3
        /\ status' = "running")
       => /\ LineArgs(line')[2] \in DOMAIN alarmTree'.nodes
          /\ HasFlags(alarmTree'.nodes[LineArgs(line')[2]].node,
                      ~(\/ str_contains(LineArgs(line')[3], "C")
                        \/ str_contains(LineArgs(line')[3], "D")),
                      ~str_contains(LineArgs(line')[3], "T"))
          /\ \A enabled \in BOOLEAN, latch \in BOOLEAN :
                 LineArgs(line')[3] = make_mask(enabled, latch)
                     => HasFlags(alarmTree'.nodes[LineArgs(line')[2]].node,
                                 enabled, latch)]_vars

C18_Witness ==
    /\ line = "CHANNEL G pv1 " \o make_mask(FALSE, FALSE) \o "\n"
    /\ status = "running"
    /\ "pv1" \in DOMAIN alarmTree.nodes
    /\ "pv2" \in DOMAIN alarmTree.nodes
    /\ HasFlags(alarmTree.nodes["pv1"].node, FALSE, FALSE)
    /\ HasFlags(alarmTree.nodes["pv2"].node, TRUE, TRUE)

-----------------------------------------------------------------------------
(* $SEVRCOMMAND *)

\* a group, a channel, commands for rising and falling severities, one of
\* them the beginning of another, and a severity PV
SevrLines ==
    {"GROUP NULL G\n",
     "CHANNEL G pv1\n",
     "$SEVRCOMMAND UP_MAJOR run x\n",
     "$SEVRCOMMAND UP_MINOR run x\n",
     "$SEVRCOMMAND UP_ANY run\n",
     "$SEVRCOMMAND DOWN_ANY run y\n",
     "$SEVRPV pv9\n"}

NextSevr ==
    \/ ParseLine(SevrLines, MaxLines + 1)
    \/ EndOfFile

SpecSevr == InitParse /\ [][NextSevr]_vars

\* the severity token and the command of a $SEVRCOMMAND line
LineSevrCommand(text) == str_split1(split_keyword(str_strip(text)).alhArgs)

\* the line asks for an action the node does not have: the severity rises
\* and no action of the node runs this command
AsksNewAction(actions, sevr, command) ==
    /\ str_startswith(sevr, "UP_")
    /\ \A i \in 1..Len(actions) : actions[i].details # "cmd:" \o command

\* C19: a $SEVRCOMMAND line read with a group or channel as current node
\* appends the action that runs its command with delay 0 when the severity
\* token is an UP_ token and no action of the node runs this command, and
\* leaves the actions of the node alone otherwise.
C19_SevrCommand ==
    [][(/\ ReadsLine
        /\ LineKeyword(line') = "$SEVRCOMMAND"
        /\ Len(LineSevrCommand(line')) = 2
        /\ AtAlarmNode)
       => /\ status' = "running"
          /\ currentNode' = currentNode
          /\ alarmTree'.nodes[currentNode].node.actions =
                 IF AsksNewAction(alarmTree.nodes[currentNode].node.actions,
                                  LineSevrCommand(line')[1],
                                  LineSevrCommand(line')[2])
                 THEN Append(alarmTree.nodes[currentNode].node.actions,
                             [title |->
                                  command_name(LineSevrCommand(line')[2]).val,
                              details |->
                                  "cmd:" \o LineSevrCommand(line')[2],
                              delay |-> 0])
                 ELSE alarmTree.nodes[currentNode].node.actions]_vars

-----------------------------------------------------------------------------
(* AlarmFilter, used by a client *)

\* PV names and a calculation with one slot
FilterExprs == {"test:ai1", "pv:x", "A"}

\* the values 5, 1, 0, 2.5 and True
FilterValues == {py_int(5), py_int(1), py_int(0), py_float(25), py_bool(TRUE)}

\* the PV of slot A, "" when the slot is not populated
SlotPVs == {"", "test:ai3"}

\* a method call on a filter and what it returned
FilterCall(op, address, latch, result) ==
    [op |-> op, address |-> address, latch |-> latch, result |-> result]

\* AlarmFilter(expr, value, A=pv, enabling=enabling)
NewFilter ==
    \E expr \in FilterExprs, value \in FilterValues, pv \in SlotPVs,
       enabling \in BOOLEAN :
        /\ Len(heap) < MaxFilters
        /\ heap' = Append(heap, [AlarmFilter(expr, value, enabling)
                                     EXCEPT !.replacements["A"] = pv])
        /\ call' = FilterCall("__init__", Len(heap) + 1, TRUE, None)
        /\ UNCHANGED <<alarmTree, uuidCount, currentNode, continueData,
                       lastCall, line, lineno, status, error,
                       frames, disk>>

\* filter.get_alh_force(latch)
GetAlhForce ==
    \E address \in 1..Len(heap), latch \in BOOLEAN :
        /\ call' = FilterCall("get_alh_force", address, latch,
                              get_alh_force(heap[address], latch))
        /\ UNCHANGED <<alarmTree, uuidCount, heap, currentNode, continueData,
                       lastCall, line, lineno, status, error,
                       frames, disk>>

\* filter.get_phoebus_filter()
GetPhoebusFilter ==
    \E address \in 1..Len(heap) :
        /\ call' = FilterCall("get_phoebus_filter", address, TRUE,
                              get_phoebus_filter(heap[address]))
        /\ UNCHANGED <<alarmTree, uuidCount, heap, currentNode, continueData,
                       lastCall, line, lineno, status, error,
                       frames, disk>>

NextAlarmFilter ==
    \/ NewFilter
    \/ GetAlhForce
    \/ GetPhoebusFilter

SpecAlarmFilter == InitParse /\ [][NextAlarmFilter]_vars

\* the filter has no slot populated and a numeric value
PlainNumeric(f) ==
    /\ ~any_replacement(f)
    /\ f.value.type \in {"int", "float"}

\* C20: for a filter with no slot populated and a numeric value v,
\* get_alh_force with the default latch returns the one line
\* "$FORCEPV <expr> <mask> <v> NE", the mask "-----" when the filter enables
\* and "CD---" when not, and get_phoebus_filter returns "(<expr>) == <v>"
\* when it enables and "(<expr>) != <v>" when not.
C20_PlainFilterStrings ==
    /\ (/\ call.op = "get_alh_force"
        /\ call.latch
        /\ PlainNumeric(heap[call.address]))
       => call.result =
              <<"$FORCEPV " \o heap[call.address].expr \o " " \o
                    (IF heap[call.address].enabling THEN "-----"
                     ELSE "CD---") \o
                    " " \o py_str(heap[call.address].value) \o " NE">>
    /\ (/\ call.op = "get_phoebus_filter"
        /\ PlainNumeric(heap[call.address]))
       => call.result =
              "(" \o heap[call.address].expr \o ")" \o
                  (IF heap[call.address].enabling THEN " == " ELSE " != ") \o
                  py_str(heap[call.address].value)

\* the value is the marker True
IsTrueMarker(value) == value.type = "bool" /\ value.tenths # 0

-----------------------------------------------------------------------------
(* AlarmFilter with slots, used by a client *)

\* calculations over the slots A and B, with and without comparisons
CalcExprs ==
    {"A+B", "B<A", "A=B", "A#B", "A==B", "A!=B", "A=B=A", "A=B&B=A"}

\* the values 1, 2 and True
CalcValues == {py_int(1), py_int(2), py_bool(TRUE)}

\* the PVs of the slots A and B, "" for a slot that is not populated
SlotAPVs == {"", "test:ai1"}

SlotBPVs == {"", "test:ai2"}

\* AlarmFilter(expr, value, A=pvA, B=pvB, enabling=enabling)
NewCalcFilter ==
    \E expr \in CalcExprs, value \in CalcValues, pvA \in SlotAPVs,
       pvB \in SlotBPVs, enabling \in BOOLEAN :
        /\ Len(heap) < MaxFilters
        /\ heap' = Append(heap, [AlarmFilter(expr, value, enabling)
                                     EXCEPT !.replacements["A"] = pvA,
                                            !.replacements["B"] = pvB])
        /\ call' = FilterCall("__init__", Len(heap) + 1, TRUE, None)
        /\ UNCHANGED <<alarmTree, uuidCount, currentNode, continueData,
                       lastCall, line, lineno, status, error,
                       frames, disk>>

NextCalcFilter ==
    \/ NewCalcFilter
    \/ GetAlhForce
    \/ GetPhoebusFilter

SpecCalcFilter == InitParse /\ [][NextCalcFilter]_vars

\* the filter has a populated slot and a numeric value
SlotsNumeric(f) ==
    /\ any_replacement(f)
    /\ f.value.type \in {"int", "float"}

\* the expression holds no = and no #
NoComparisonToFix(expr) ==
    ~str_contains(expr, "=") /\ ~str_contains(expr, "#")

\* the populated slots in ascending order
PopulatedSlots(f) ==
    SelectSeq(<<"A", "B", "C", "D", "E", "F">>,
              LAMBDA slot : f.replacements[slot] # "")

\* the lines the claim expects of get_alh_force for a filter with slots
ExpectedCalcLines(f, mask, value) ==
    <<"$FORCEPV CALC " \o mask \o " " \o value \o " NE",
      "$FORCEPV_CALC " \o f.expr>> \o
    [i \in 1..Len(PopulatedSlots(f)) |->
        "$FORCEPV_CALC_" \o PopulatedSlots(f)[i] \o " " \o
            f.replacements[PopulatedSlots(f)[i]]]

\* text with every slot letter replaced by the PV of the slot, taken from
\* the end of the text
RECURSIVE Substituted(_, _)
Substituted(text, replacements) ==
    IF text = "" THEN ""
    ELSE Substituted(SubSeq(text, 1, Len(text) - 1), replacements) \o
         (IF SubSeq(text, Len(text), Len(text)) \in {"A", "B", "C", "D", "E", "F"}
          THEN replacements[SubSeq(text, Len(text), Len(text))]
          ELSE SubSeq(text, Len(text), Len(text)))

\* C22: for a filter with a populated slot and a numeric value get_alh_force
\* returns the header "$FORCEPV CALC <mask> <value> NE", the line
\* "$FORCEPV_CALC <expr>" and one "$FORCEPV_CALC_<slot> <pv>" line for each
\* populated slot in ascending order of the letters, and get_phoebus_filter
\* returns the expression with its slot letters replaced by the PVs, in
\* parentheses, followed by " == <value>" when the filter enables and
\* " != <value>" when not.
C22_SlotFilterStrings ==
    /\ (/\ call.op = "get_alh_force"
        /\ SlotsNumeric(heap[call.address]))
       => call.result =
              ExpectedCalcLines(heap[call.address],
                                make_mask(heap[call.address].enabling,
                                          call.latch),
                                py_str(heap[call.address].value))
    /\ (/\ call.op = "get_phoebus_filter"
        /\ SlotsNumeric(heap[call.address])
        /\ NoComparisonToFix(heap[call.address].expr))
       => call.result =
              "(" \o Substituted(heap[call.address].expr,
                                 heap[call.address].replacements) \o ")" \o
                  (IF heap[call.address].enabling THEN " == " ELSE " != ") \o
                  py_str(heap[call.address].value)

C22_Witness ==
    /\ call.op = "get_alh_force"
    /\ heap[call.address].expr = "B<A"
    /\ heap[call.address].value = py_int(2)
    /\ call.result = <<"$FORCEPV CALC CD--- 2 NE", "$FORCEPV_CALC B<A",
                       "$FORCEPV_CALC_A test:ai1",
                       "$FORCEPV_CALC_B test:ai2">>
    /\ get_phoebus_filter(heap[call.address]) = "(test:ai2<test:ai1) != 2"

\* C23: for the value True the string of get_phoebus_filter for a filter
\* with a populated slot is the substituted expression when the filter
\* enables and "!(<substituted expression>)" when not, it differs from the
\* string of the same filter with the value 1, and get_alh_force writes the
\* value as 1.
C23_TrueMarker ==
    /\ (/\ call.op = "get_phoebus_filter"
        /\ IsTrueMarker(heap[call.address].value))
       => /\ call.result #
                 get_phoebus_filter([heap[call.address]
                                         EXCEPT !.value = py_int(1)])
          /\ (/\ any_replacement(heap[call.address])
              /\ NoComparisonToFix(heap[call.address].expr))
             => call.result =
                    IF heap[call.address].enabling
                    THEN Substituted(heap[call.address].expr,
                                     heap[call.address].replacements)
                    ELSE "!(" \o Substituted(heap[call.address].expr,
                                             heap[call.address].replacements)
                             \o ")"
    /\ (/\ call.op = "get_alh_force"
        /\ IsTrueMarker(heap[call.address].value))
       => call.result =
              IF any_replacement(heap[call.address])
              THEN ExpectedCalcLines(heap[call.address],
                                     make_mask(heap[call.address].enabling,
                                               call.latch), "1")
              ELSE <<"$FORCEPV " \o heap[call.address].expr \o " " \o
                         make_mask(heap[call.address].enabling, call.latch)
                         \o " 1 NE">>

C23_Witness ==
    /\ call.op = "get_phoebus_filter"
    /\ IsTrueMarker(heap[call.address].value)
    /\ heap[call.address].expr = "A+B"
    /\ call.result = "!(test:ai1+test:ai2)"
    /\ get_phoebus_filter([heap[call.address] EXCEPT !.value = py_int(1)])
           = "(test:ai1+test:ai2) != 1"
    /\ get_alh_force(heap[call.address], TRUE)[1] = "$FORCEPV CALC CD--- 1 NE"

\* text with every = that stands alone, neither next to another = nor
\* after a !, written as " == " and every # written as " != ", from the
\* i-th character on
RECURSIVE FixedComparisons(_, _)
FixedComparisons(text, i) ==
    IF i > Len(text) THEN ""
    ELSE (IF SubSeq(text, i, i) = "#" THEN " != "
          ELSE IF /\ SubSeq(text, i, i) = "="
                  /\ SubSeq(text, i - 1, i - 1) \notin {"=", "!"}
                  /\ SubSeq(text, i + 1, i + 1) # "="
          THEN " == "
          ELSE SubSeq(text, i, i)) \o FixedComparisons(text, i + 1)

\* C24: in the string of get_phoebus_filter for a numeric value every = of
\* the expression that is not part of == or != is written " == ", every #
\* is written " != ", and == and != stay as they are.
C24_ComparisonsFixed ==
    (/\ call.op = "get_phoebus_filter"
     /\ heap[call.address].value.type \in {"int", "float"})
    => call.result =
           (IF any_replacement(heap[call.address])
            THEN "(" \o Substituted(
                            FixedComparisons(heap[call.address].expr, 1),
                            heap[call.address].replacements) \o ")"
            ELSE FixedComparisons(heap[call.address].expr, 1)) \o
           (IF heap[call.address].enabling THEN " == " ELSE " != ") \o
           py_str(heap[call.address].value)

-----------------------------------------------------------------------------
(* The replacements of a calculated force PV *)

\* a group, the header of a calculation, its expression, PVs for two slots
\* of the expression, for a slot it does not use and for a key that is no
\* slot, and a plain force PV
ForceCalcLines ==
    {"GROUP NULL G\n",
     "$FORCEPV CALC -D--- 1 NE\n",
     "$FORCEPV_CALC A<B\n",
     "$FORCEPV_CALC_A test:ai3\n",
     "$FORCEPV_CALC_B 4\n",
     "$FORCEPV_CALC_C test:ai5\n",
     "$FORCEPV_CALC_Z test:ai9\n",
     "$FORCEPV pv9 -D--- 1 NE\n"}

NextForceCalc ==
    \/ ParseLine(ForceCalcLines, MaxLines + 1)
    \/ EndOfFile

SpecForceCalc == InitParse /\ [][NextForceCalc]_vars

\* the key is a slot letter the expression of the filter references
ReferencedSlot(f, key) ==
    key \in {"A", "B", "C", "D", "E", "F"} /\ str_contains(f.expr, key)

\* C25: every PV the replacements of a filter hold is held under a slot
\* letter A-F that the expression of the filter references, and every
\* $FORCEPV_CALC_<slot> line of get_alh_force names such a slot.
C25_ReplacementsReferenced ==
    \A at \in 1..Len(heap) :
        /\ \A key \in DOMAIN heap[at].replacements :
               heap[at].replacements[key] # ""
                   => ReferencedSlot(heap[at], key)
        /\ \A i \in 3..Len(get_alh_force(heap[at], TRUE)) :
               \E key \in DOMAIN heap[at].replacements :
                   /\ ReferencedSlot(heap[at], key)
                   /\ get_alh_force(heap[at], TRUE)[i] =
                          "$FORCEPV_CALC_" \o key \o " " \o
                              heap[at].replacements[key]

-----------------------------------------------------------------------------
(* The export to alh of a parsed file *)

\* a file with every keyword family that has an equivalent, written as
\* get_alh_lines writes it
RoundTripFile ==
    <<"GROUP NULL G\n",
      "$ALIAS A\n",
      "$GUIDANCE http://x\n",
      "$COMMAND run x\n",
      "$SEVRPV s:pv\n",
      "$SEVRCOMMAND UP_ANY run y\n",
      "INCLUDE G f.alh\n",
      "CHANNEL G pv1 ---T-\n",
      "$ALARMCOUNTFILTER 2 5\n",
      "$FORCEPV pv9 CD-T- 1.0 NE\n",
      "CHANNEL G pv2 CD---\n",
      "$FORCEPV pv8 ----- 1.0 NE\n">>

\* one iteration of the loop over a file that holds lines of file in their
\* order, any of them left out
ParseFileLine(file) ==
    \E k \in 1..Len(file) :
        /\ status = "running"
        /\ k > FilePosition(file, line, Len(file))
        /\ Iterate(parse_line(World(alarmTree, heap, uuidCount), currentNode,
                              continueData, lastCall, file[k]),
                   file[k])

NextRoundTrip ==
    \/ ParseFileLine(RoundTripFile)
    \/ EndOfFile

SpecRoundTrip == InitParse /\ [][NextRoundTrip]_vars

\* the current node is a channel
AtChannel ==
    /\ AtAlarmNode
    /\ alarmTree.nodes[currentNode].node.cls = "AlarmPV"

\* the line stands where a legacy file has it: a force PV or alarm count
\* line, which get_alh_lines writes for channels only, at a channel, and
\* the mask of a force PV line with the T of a channel that does not latch
WrittenForNode(text) ==
    /\ LineKeyword(text) \in {"$ALARMCOUNTFILTER", "$FORCEPV"} => AtChannel
    /\ LineKeyword(text) = "$FORCEPV"
           => str_contains(LineArgs(text)[2], "T") =
                  ~alarmTree.nodes[currentNode].node.latch

\* C26: after every line of a supported keyword family that parse_alh has
\* processed where a legacy file has it, the export of the tree with
\* get_alh_lines raises no exception and holds the line.
C26_LegacyRoundTrip ==
    [][(/\ ReadsLine
        /\ status' = "running"
        /\ WrittenForNode(line'))
       => /\ get_alh_lines(alarmTree', heap', None, None).exc = None
          /\ \E i \in 1..Len(get_alh_lines(alarmTree', heap', None,
                                           None).lines) :
                 get_alh_lines(alarmTree', heap', None, None).lines[i] =
                     str_strip(line')]_vars

-----------------------------------------------------------------------------
(* The order of the export to alh *)

\* two top groups, one of them with an alias, a nested group and two
\* channels; the group has an action, a display, a command and a guidance,
\* in this order in the file
ExportFile ==
    <<"GROUP NULL G\n",
      "$ALIAS A\n",
      "$SEVRPV s:pv\n",
      "$GUIDANCE http://x\n",
      "$COMMAND run x\n",
      "$GUIDANCE\n",
      "help\n",
      "$END\n",
      "GROUP G S\n",
      "CHANNEL S pv1\n",
      "$SEVRCOMMAND UP_ANY run z\n",
      "$COMMAND run y\n",
      "CHANNEL G pv2 ---T-\n",
      "GROUP NULL H\n">>

NextExport ==
    \/ ParseFileLine(ExportFile)
    \/ EndOfFile

SpecExport == InitParse /\ [][NextExport]_vars

\* the identifiers of the nodes below nid in the order of a depth-first
\* walk that visits a node before its children, the children from the
\* i-th in their sorted order
RECURSIVE PreOrderBelow(_, _, _)
PreOrderBelow(tree, kids, i) ==
    IF i > Len(kids) THEN <<>>
    ELSE <<kids[i].identifier>> \o
         PreOrderBelow(tree, export_children(tree, kids[i].identifier), 1) \o
         PreOrderBelow(tree, kids, i + 1)

\* the name a header line gives for the parent of the node
HeaderParent(tree, nid) ==
    IF tree.nodes[nid].parentId = tree.root THEN "NULL"
    ELSE tree.nodes[tree.nodes[nid].parentId].node.tag

\* the lines get_alh_lines of the node nid returns
NodeBlock(tree, objects, nid) ==
    node_alh_lines(tree.nodes[nid].node, objects, HeaderParent(tree, nid),
                   None).lines

\* the blocks of the nodes of order from the i-th, each followed by one
\* empty line
RECURSIVE BlocksInOrder(_, _, _, _)
BlocksInOrder(tree, objects, order, i) ==
    IF i > Len(order) THEN <<>>
    ELSE NodeBlock(tree, objects, order[i]) \o <<"">> \o
         BlocksInOrder(tree, objects, order, i + 1)

\* the line of an action without delay
ActionLine(action) ==
    IF str_startswith(action.details, "sevrpv:")
    THEN "$SEVRPV " \o str_from(action.details, 8)
    ELSE "$SEVRCOMMAND UP_ANY " \o str_from(action.details, 5)

\* the guidance, command, display and action lines of a node in this order
BodyLines(node) ==
    guidance_lines(node.guidances, 1) \o
    [i \in 1..Len(node.commands) |-> "$COMMAND " \o node.commands[i].details]
    \o
    [i \in 1..Len(node.displays) |-> "$GUIDANCE " \o node.displays[i].details]
    \o
    [i \in 1..Len(node.actions) |-> ActionLine(node.actions[i])]

\* the block starts with the header of the node, which names the parent,
\* and has the body lines next, behind a $ALIAS line when there is one
HeaderThenBody(tree, nid, block) ==
    /\ str_startswith(block[1],
                      (IF tree.nodes[nid].node.cls = "AlarmPV"
                       THEN "CHANNEL " ELSE "GROUP ") \o
                          HeaderParent(tree, nid) \o " " \o
                          tree.nodes[nid].node.tag)
    /\ \E first \in {2, 3} :
           /\ first = 3 => str_startswith(block[2], "$ALIAS ")
           /\ SubSeq(block, first,
                     first + Len(BodyLines(tree.nodes[nid].node)) - 1) =
                  BodyLines(tree.nodes[nid].node)

\* C27: the lines of get_alh_lines are the blocks of the nodes below the
\* root in depth-first order, a node before its children, each block
\* followed by one empty line; a block starts with the header line, which
\* names NULL or the tag of the parent, and has the guidance, command,
\* display and action lines in this order.
C27_ExportOrder ==
    /\ get_alh_lines(alarmTree, heap, None, None).exc = None
    /\ get_alh_lines(alarmTree, heap, None, None).lines =
           BlocksInOrder(alarmTree, heap,
                         PreOrderBelow(alarmTree,
                                       export_children(alarmTree,
                                                       alarmTree.root), 1),
                         1)
    /\ \A nid \in DOMAIN alarmTree.nodes \ {alarmTree.root} :
           HeaderThenBody(alarmTree, nid, NodeBlock(alarmTree, heap, nid))

C27_Witness ==
    /\ status = "returned"
    /\ lineno = Len(ExportFile)
    /\ get_alh_lines(alarmTree, heap, None, None).lines =
           <<"GROUP NULL G", "$ALIAS A", "$GUIDANCE", "help\n", "$END",
             "$COMMAND run x", "$GUIDANCE http://x", "$SEVRPV s:pv", "",
             "GROUP G S", "",
             "CHANNEL S pv1 -----", "$COMMAND run y",
             "$SEVRCOMMAND UP_ANY run z", "",
             "CHANNEL G pv2 ---T-", "",
             "GROUP NULL H", "">>

-----------------------------------------------------------------------------
(* The warning for several top groups *)

TopGroupWarning ==
    "creating invalid alh, alarm tree has more than one top group"

\* the groups directly under the root
TopGroups ==
    {nid \in DOMAIN alarmTree.nodes :
         /\ nid # alarmTree.root
         /\ alarmTree.nodes[nid].parentId = alarmTree.root
         /\ alarmTree.nodes[nid].node.cls = "AlarmNode"}

\* the nodes directly under the root
TopNodes ==
    {nid \in DOMAIN alarmTree.nodes :
         /\ nid # alarmTree.root
         /\ alarmTree.nodes[nid].parentId = alarmTree.root}

Warned(exported) ==
    \E i \in 1..Len(exported.warnings) : exported.warnings[i] = TopGroupWarning

\* C28: get_alh_lines of a tree with more than one group under the root
\* warns that the alh is invalid, and returns the lines; get_alh_lines of a
\* tree with at most one node under the root does not give this warning.
C28_TopGroupWarning ==
    /\ Cardinality(TopGroups) > 1
           => Warned(get_alh_lines(alarmTree, heap, None, None))
    /\ Cardinality(TopNodes) <= 1
           => ~Warned(get_alh_lines(alarmTree, heap, None, None))

C28_Witness ==
    /\ Cardinality(TopGroups) = 2
    /\ Warned(get_alh_lines(alarmTree, heap, None, None))
    /\ get_alh_lines(alarmTree, heap, None, None).exc = None
    /\ Len(get_alh_lines(alarmTree, heap, None, None).lines) > 4

\* a tree with one top group that has two children is exported without
\* the warning
C28_WitnessSilent ==
    /\ Cardinality(TopNodes) = 1
    /\ Cardinality(DOMAIN alarmTree.nodes) = 4
    /\ ~Warned(get_alh_lines(alarmTree, heap, None, None))

-----------------------------------------------------------------------------
(* The XML element of a channel *)

\* a channel with a description and a count filter, with three variants of
\* the count filter, and a channel with the defaults
XmlFile ==
    <<"GROUP NULL G\n",
      "CHANNEL G pv1 CD-T-\n",
      "$ALIAS some text\n",
      "$SEVRPV s:pv\n",
      "$ALARMCOUNTFILTER 2 5\n",
      "$ALARMCOUNTFILTER 2 0\n",
      "$ALARMCOUNTFILTER 0 5\n",
      "CHANNEL G pv2\n">>

\* the numbers a client assigns to delay and count of a channel
DelayValues == {py_int(0), py_int(10)}

CountValues == {py_int(0), py_int(5)}

\* a client assigns attributes of a channel of the tree parse_alh returned
AssignAttributes ==
    /\ status = "returned"
    /\ \E nid \in Channels(alarmTree), annunciate \in BOOLEAN,
          delay \in DelayValues, count \in CountValues :
           alarmTree' =
               [alarmTree EXCEPT
                    !.nodes[nid].node =
                        [@ EXCEPT !.annunciate = annunciate,
                                  !.delay = delay,
                                  !.count = count]]
    /\ UNCHANGED <<uuidCount, call, heap, currentNode, continueData,
                   lastCall, line, lineno, status, error,
                       frames, disk>>

NextXml ==
    \/ ParseFileLine(XmlFile)
    \/ EndOfFile
    \/ AssignAttributes

SpecXml == InitParse /\ [][NextXml]_vars

\* the subelements of the XML element of a channel that have the tag
Subelements(nid, tag) ==
    {i \in 1..Len(alarmpv_xml_element(alarmTree.nodes[nid].node,
                                      heap).subelements) :
         alarmpv_xml_element(alarmTree.nodes[nid].node,
                             heap).subelements[i].tag = tag}

SubelementText(nid, i) ==
    alarmpv_xml_element(alarmTree.nodes[nid].node, heap).subelements[i].text

\* the delay or count of a channel is the number zero, held as a number or
\* as the text of a number
IsZero(value) ==
    IF value.type = "str"
    THEN float(value.text).exc = None /\ float(value.text).val = 0
    ELSE value.tenths = 0

\* the flags are written once as true or false, the description only when
\* there is one, the delay only when it is not zero and the count only
\* when neither delay nor count is zero
ChannelXml(nid) ==
    /\ \A tag \in {"enabled", "latching", "annunciating"} :
           /\ Cardinality(Subelements(nid, tag)) = 1
           /\ \A i \in Subelements(nid, tag) :
                  SubelementText(nid, i) \in {"true", "false"}
    /\ Subelements(nid, "description") # {}
           => alarmTree.nodes[nid].node.desc # ""
    /\ Subelements(nid, "delay") # {}
           => ~IsZero(alarmTree.nodes[nid].node.delay)
    /\ Subelements(nid, "count") # {}
           => /\ ~IsZero(alarmTree.nodes[nid].node.delay)
              /\ ~IsZero(alarmTree.nodes[nid].node.count)
              /\ Subelements(nid, "delay") # {}

\* C29: in the XML element of a channel enabled, latching and annunciating
\* appear once each with the text true or false, description appears only
\* when the description is not empty, delay only when the delay is not
\* zero, and count only when delay and count are both not zero.
C29_ChannelXml ==
    \A nid \in Channels(alarmTree) : ChannelXml(nid)

\* the same for the channels whose delay and count are numbers, as a
\* client assigns them
C29_ChannelXmlOfNumbers ==
    \A nid \in Channels(alarmTree) :
        (/\ alarmTree.nodes[nid].node.delay.type # "str"
         /\ alarmTree.nodes[nid].node.count.type # "str")
            => ChannelXml(nid)

\* a channel with a delay assigned by a client and the count 0
C29_WitnessOfNumbers ==
    \E nid \in Channels(alarmTree) :
        /\ alarmTree.nodes[nid].node.delay = py_int(10)
        /\ alarmTree.nodes[nid].node.count = py_int(0)
        /\ alarmTree.nodes[nid].node.desc = "some text"
        /\ Subelements(nid, "delay") # {}
        /\ Subelements(nid, "count") = {}

-----------------------------------------------------------------------------
(* recursive_alh_parse with singleFile=True *)

\* the file given to recursive_alh_parse: two groups, a channel and a file
\* included under a group
IncludingFile ==
    <<"GROUP NULL G\n",
      "$ALIAS A\n",
      "CHANNEL G pv1\n",
      "$COMMAND run x\n",
      "GROUP G H\n",
      "CHANNEL H pv2 ---T-\n",
      "INCLUDE G sub.alh\n",
      "GROUP G K\n">>

\* what the included file can hold: one top group with a channel, one top
\* group alone, nothing, two top groups
IncludedFiles ==
    {<<"GROUP NULL S\n", "CHANNEL S pv3\n">>,
     <<"GROUP NULL S\n">>,
     <<>>,
     <<"GROUP NULL S\n", "GROUP NULL T\n">>}

\* the number of nodes under the root of the tree parsed from the file,
\* -1 when parse_alh raised
TopLevelCount(parsed) ==
    IF parsed.exc # None THEN -1
    ELSE Len(children(parsed.w.tree, parsed.w.tree.root))

\* the result of the loop body is assigned: the tree, the exception and,
\* in call, the marker and the number of top-level nodes of the subtree
Included(nid, parsed, r) ==
    /\ alarmTree' = r.tree
    /\ status' = IF r.exc = None THEN "returned" ELSE "raised"
    /\ error' = r.exc
    /\ call' = Call("recursive_alh_parse", nid, parent_of(alarmTree, nid),
                    "0", [exc |-> r.exc, id |-> None,
                          count |-> TopLevelCount(parsed)])
    /\ UNCHANGED <<uuidCount, heap, currentNode, continueData, lastCall,
                   line, lineno, frames, disk>>

\* recursive_alh_parse with singleFile=True after parse_alh returned the
\* base tree: one iteration of the loop over the inclusions
Include ==
    /\ status = "returned"
    /\ \E nid \in InclusionNodes(alarmTree), file \in IncludedFiles :
           Included(nid,
                    parse_alh(file, parent_of(alarmTree, nid), heap,
                              uuidCount),
                    include_single_file(
                        alarmTree,
                        parse_alh(file, parent_of(alarmTree, nid), heap,
                                  uuidCount),
                        nid))

NextInclude ==
    \/ ParseFileLine(IncludingFile)
    \/ EndOfFile
    \/ Include

SpecInclude == InitParse /\ [][NextInclude]_vars

\* the step is an iteration of the loop over the inclusions
IncludeStep ==
    /\ status = "returned"
    /\ call'.op = "recursive_alh_parse"
    /\ call'.arg \in InclusionNodes(alarmTree)

\* the nodes of the tree after the step that are new and lie under the
\* parent of the marker
Grafted ==
    {nid \in DOMAIN alarmTree'.nodes \ DOMAIN alarmTree.nodes :
         alarmTree'.nodes[nid].parentId = call'.parent}

\* C30: with singleFile=True, an included file whose tree has exactly one
\* top-level group is grafted under the parent of its InclusionMarker and
\* the marker is removed, so that the tree recursive_alh_parse returns
\* holds no InclusionMarker; an included file with no or several top-level
\* groups makes the conversion raise.
C30_SingleFile ==
    [][IncludeStep =>
           IF call'.count = 1
           THEN /\ status' = "returned"
                /\ call'.arg \notin DOMAIN alarmTree'.nodes
                /\ Grafted # {}
           ELSE status' = "raised"]_vars

\* the part of C30 that holds: an included file with no or several
\* top-level groups raises RuntimeError, and recursive_alh_parse returns
\* no tree with an InclusionMarker from the loop
C30_NotOneTopGroupFails ==
    [][IncludeStep =>
           /\ call'.count # 1 => status' = "raised" /\ error' = "RuntimeError"
           /\ status' = "returned" => InclusionNodes(alarmTree') = {}]_vars

\* an included file with two top groups has made the conversion fail
C30_WitnessFails ==
    /\ call.op = "recursive_alh_parse"
    /\ call.count = 2
    /\ status = "raised"
    /\ error = "RuntimeError"

-----------------------------------------------------------------------------
(* recursive_alh_parse converting files that include files *)

\* the files of the directory: a.alh is the one converted
ChainFiles ==
    [name \in {"a.alh", "b.alh", "c.alh"} |->
         CASE name = "a.alh" -> <<"GROUP NULL G\n", "INCLUDE G b.alh\n">>
           [] name = "b.alh" -> <<"GROUP NULL S\n", "INCLUDE S c.alh\n">>
           [] name = "c.alh" -> <<"GROUP NULL T\n", "CHANNEL T pv1\n">>]

\* a.alh and b.alh include each other
CycleFiles ==
    [name \in {"a.alh", "b.alh"} |->
         CASE name = "a.alh" -> <<"GROUP NULL G\n", "INCLUDE G b.alh\n">>
           [] name = "b.alh" -> <<"GROUP NULL S\n", "INCLUDE S a.alh\n">>]

\* a.alh includes itself and a second file
SelfFiles ==
    [name \in {"a.alh", "c.alh"} |->
         CASE name = "a.alh" ->
                  <<"GROUP NULL G\n", "INCLUDE G c.alh\n",
                    "INCLUDE G a.alh\n">>
           [] name = "c.alh" -> <<"GROUP NULL T\n">>]

\* a.alh includes two files, one of them twice, and a file that is missing
FanFiles ==
    [name \in {"a.alh", "b.alh", "c.alh"} |->
         CASE name = "a.alh" ->
                  <<"GROUP NULL G\n", "INCLUDE G b.alh\n",
                    "INCLUDE G c.alh\n", "INCLUDE G b.alh\n",
                    "INCLUDE G d.alh\n">>
           [] name = "b.alh" -> <<"GROUP NULL S\n">>
           [] name = "c.alh" -> <<"GROUP NULL T\n", "GROUP NULL U\n">>]

\* a.alh includes a file by its absolute path
AbsoluteFiles ==
    [name \in {"a.alh"} |->
         <<"GROUP NULL G\n", "INCLUDE G /opt/b.alh\n">>]

Directories == {ChainFiles, CycleFiles, SelfFiles, FanFiles, AbsoluteFiles}

\* the output files that can exist before the conversion
OutputNames == {"a.xml", "b.xml", "c.xml"}

\* a directory, its output files and the options of the conversion
InitConvert ==
    /\ alarmTree = AlarmTreeInit(ConfigName)
    /\ uuidCount = 0
    /\ call = NoCall
    /\ heap = <<>>
    /\ currentNode = None
    /\ continueData = None
    /\ lastCall = None
    /\ line = ""
    /\ lineno = 0
    /\ status = "idle"
    /\ error = None
    /\ frames = <<>>
    /\ \E sources \in Directories, outputs \in SUBSET OutputNames,
          singleFile \in BOOLEAN, ignoreExisting \in BOOLEAN :
           disk = [sources |-> sources, outputs |-> outputs,
                   existing |-> outputs, parsed |-> {}, written |-> {},
                   singleFile |-> singleFile,
                   ignoreExisting |-> ignoreExisting]

\* the call has reached its loop or has raised
Enter(r, parsed) ==
    /\ frames' = IF r.exc = None THEN Append(frames, r.frame) ELSE <<>>
    /\ status' = IF r.exc = None THEN "running" ELSE "raised"
    /\ error' = r.exc
    /\ heap' = r.heap
    /\ uuidCount' = r.uuid
    /\ disk' = [disk EXCEPT !.parsed = @ \cup parsed]
    /\ UNCHANGED <<alarmTree, call, currentNode, continueData, lastCall,
                   line, lineno>>

\* an exception leaves every call in progress
Raise(exc) ==
    /\ frames' = <<>>
    /\ status' = "raised"
    /\ error' = exc
    /\ UNCHANGED <<alarmTree, uuidCount, call, heap, currentNode,
                   continueData, lastCall, line, lineno, disk>>

\* alh_to_xml calls recursive_alh_parse for a.alh
Convert ==
    /\ status = "idle"
    /\ \E r \in {recursive_alh_parse(disk.sources, "a.alh", "a.xml",
                                      disk.singleFile, "a",
                                      disk.ignoreExisting, heap, uuidCount)} :
           Enter(r, {})

\* the loop reaches an inclusion that is converted: recursive_alh_parse is
\* called for its file, with ignoreExisting left at its default
IncludeFile ==
    /\ status = "running"
    /\ frames[Len(frames)].pending # <<>>
    /\ converts_inclusion(frames[Len(frames)], disk.outputs)
    /\ IF str_startswith(inclusion_filename(frames[Len(frames)]), "/")
       THEN Raise("AttributeError")
       ELSE IF Len(frames) >= RecursionLimit
       THEN Raise("RecursionError")
       ELSE \E r \in {recursive_alh_parse(
                           disk.sources,
                           inclusion_filename(frames[Len(frames)]),
                           sub_out_path(frames[Len(frames)]),
                           frames[Len(frames)].singleFile,
                           parent_of(frames[Len(frames)].tree,
                                     frames[Len(frames)].pending[1]),
                           FALSE, heap, uuidCount)} :
                Enter(r, {inclusion_filename(frames[Len(frames)])} \cap
                             DOMAIN disk.sources)

\* the loop reaches an inclusion whose output exists and is not to be
\* overwritten
SkipFile ==
    /\ status = "running"
    /\ frames[Len(frames)].pending # <<>>
    /\ ~converts_inclusion(frames[Len(frames)], disk.outputs)
    /\ frames' = inclusion_done(frames)
    /\ UNCHANGED <<alarmTree, uuidCount, call, heap, currentNode,
                   continueData, lastCall, line, lineno, status, error,
                   disk>>

\* write_xml of the tree of the topmost call unless singleFile is set
Written(frame) ==
    IF frame.singleFile THEN disk
    ELSE [disk EXCEPT !.outputs = @ \cup {frame.outPath},
                      !.written = @ \cup {frame.outPath}]

\* the caller goes on with the pasted tree, or raises
Pasted(r) ==
    /\ frames' = IF r.exc # None THEN <<>>
                 ELSE [inclusion_done(SubSeq(frames, 1, Len(frames) - 1))
                           EXCEPT ![Len(frames) - 1].tree = r.tree]
    /\ status' = IF r.exc # None THEN "raised" ELSE "running"
    /\ error' = r.exc

\* the loop of the topmost call is over: the tree is written and returned,
\* to alh_to_xml or to the call that included the file
ReturnTree ==
    /\ status = "running"
    /\ frames[Len(frames)].pending = <<>>
    /\ disk' = Written(frames[Len(frames)])
    /\ IF Len(frames) = 1
       THEN /\ frames' = <<>>
            /\ status' = "returned"
            /\ alarmTree' = frames[1].tree
            /\ error' = None
       ELSE /\ UNCHANGED alarmTree
            /\ IF frames[Len(frames) - 1].singleFile
               THEN Pasted(paste_subtree_into_base(
                               frames[Len(frames) - 1].tree,
                               frames[Len(frames)].tree,
                               frames[Len(frames) - 1].pending[1]))
               ELSE /\ frames' = inclusion_done(
                                     SubSeq(frames, 1, Len(frames) - 1))
                    /\ UNCHANGED <<status, error>>
    /\ UNCHANGED <<uuidCount, call, heap, currentNode, continueData,
                   lastCall, line, lineno>>

NextConvert ==
    \/ Convert
    \/ IncludeFile
    \/ SkipFile
    \/ ReturnTree

SpecConvert == InitConvert /\ [][NextConvert]_vars

\* the output file of an included file
OutputOf(name) == splitext_root(name) \o ".xml"

\* C31: with ignoreExisting set, an included file whose output file exists
\* before the conversion is not parsed and its output file is not written,
\* at any depth of inclusion.
C31_ExistingIgnored ==
    disk.ignoreExisting =>
        \A name \in DOMAIN disk.sources :
            OutputOf(name) \in disk.existing =>
                /\ name \notin disk.parsed
                /\ (name # "a.alh" => OutputOf(name) \notin disk.written)

\* the same for the files a.alh includes itself
C31_ExistingIgnoredFirstLevel ==
    (disk.ignoreExisting /\ "b.xml" \in disk.existing) =>
        /\ "b.alh" \notin disk.parsed
        /\ "b.xml" \notin disk.written

\* a conversion with ignoreExisting has skipped b.alh and returned
C31_WitnessFirstLevel ==
    /\ disk.ignoreExisting
    /\ "b.xml" \in disk.existing
    /\ disk.sources = FanFiles
    /\ "c.alh" \in disk.parsed
    /\ status = "raised"

-----------------------------------------------------------------------------
(* Termination of recursive_alh_parse *)

\* a call of recursive_alh_parse is to be made or is in progress; a step
\* of NextConvert is then possible and changes the stack or the status
ConversionRunning == status \in {"idle", "running"}

\* the interpreter goes on running the conversion as long as a step is
\* possible: weak fairness of NextConvert, with the condition under which
\* a step is possible written out
SpecConvertFair ==
    SpecConvert /\ ([]<>~ConversionRunning \/ []<><<NextConvert>>_vars)

\* C33: every conversion ends: recursive_alh_parse returns a tree or
\* raises an exception, also when the files include each other in a cycle.
C33_Terminates == <>(status \in {"returned", "raised"})

\* the conversion of two files that include each other has ended
C33_Witness ==
    /\ disk.sources = CycleFiles
    /\ status = "raised"
    /\ error = "RecursionError"
    /\ disk.parsed = {"a.alh", "b.alh"}

-----------------------------------------------------------------------------
(* The polarity of the filter of a $FORCEPV line *)

\* a group with a disabling force PV, an enabled and a disabled channel
\* below it, and force PV lines with a disabling and an enabling mask, for
\* a PV and for a calculation
PolarityFile ==
    <<"GROUP NULL G\n",
      "$FORCEPV pv9 CD--- 1 NE\n",
      "CHANNEL G pv1\n",
      "CHANNEL G pv2 CD---\n",
      "$FORCEPV pv3 CD--- 1 NE\n",
      "$FORCEPV pv4 ----- 0 NE\n",
      "$FORCEPV CALC -D--- 1 NE\n",
      "$FORCEPV CALC ----- 5 NE\n",
      "$FORCEPV_CALC A<B\n">>

NextPolarity ==
    \/ ParseFileLine(PolarityFile)
    \/ EndOfFile

SpecPolarity == InitParse /\ [][NextPolarity]_vars

\* the step reads a $FORCEPV line while a channel is the current node
ForcesChannel ==
    /\ ReadsLine
    /\ AtChannel
    /\ status' = "running"
    /\ LineKeyword(line') = "$FORCEPV"

\* the channel has a filter object with this polarity after the step
FilterAfter(enabling) ==
    /\ CarriesFilter(alarmTree', currentNode)
    /\ heap'[AddressIndex(alarmTree'.nodes[currentNode].node.filter,
                          Len(heap'))].enabling = enabling

\* the channel has a filter object for the force PV after the step
FilterFor(got) ==
    /\ CarriesFilter(alarmTree', currentNode)
    /\ got.forcePV # "CALC" =>
           heap'[AddressIndex(alarmTree'.nodes[currentNode].node.filter,
                              Len(heap'))].expr = got.forcePV

\* what the claim asks of a $FORCEPV line with the arguments got read at
\* the channel node
PolarityDerived(got, node) ==
    IF got.forceEnables # node.enabled
    THEN (got.forcePV # "CALC" \/ got.forceValue.tenths = 10)
             => /\ alarmTree'.nodes[currentNode].node.enabled
                /\ FilterAfter(got.forceEnables)
    ELSE \/ FilterFor(got)
         \/ \E i \in 1..Len(forcepv_log(got, node)) :
                forcepv_log(got, node)[i] = "error"

\* C32: a $FORCEPV line read at a channel whose enabled state disagrees
\* with the C and D of the mask leaves the channel enabled with a filter
\* that enables exactly when the mask has neither C nor D (for a force PV,
\* and for a calculation forced at 1); when they agree the channel still
\* ends with a filter for the force condition, or an error is logged.
C32_ForcePolarity ==
    [][ForcesChannel =>
           PolarityDerived(get_forcepv_args(LineArgs(line')).val,
                           alarmTree.nodes[currentNode].node)]_vars

\* the part that holds: the lines whose mask disagrees with the channel
C32_DisagreeingMask ==
    [][(/\ ForcesChannel
        /\ get_forcepv_args(LineArgs(line')).val.forceEnables #
               alarmTree.nodes[currentNode].node.enabled)
           => PolarityDerived(get_forcepv_args(LineArgs(line')).val,
                              alarmTree.nodes[currentNode].node)]_vars

\* a disabled channel has been enabled by a force PV line with an enabling
\* mask and carries an enabling filter
C32_WitnessDisagreeing ==
    /\ line = "$FORCEPV pv4 ----- 0 NE\n"
    /\ status = "running"
    /\ AtChannel
    /\ alarmTree.nodes[currentNode].node.name = "pv2"
    /\ alarmTree.nodes[currentNode].node.enabled
    /\ CarriesFilter(alarmTree, currentNode)
    /\ heap[AddressIndex(alarmTree.nodes[currentNode].node.filter,
                         Len(heap))].enabling

-----------------------------------------------------------------------------
(* Identifiers after nodes were moved *)

\* the parent has a child group with this name
HasChildGroup(tree, pid, name) ==
    \E i \in 1..Len(tree.nodes[pid].children) :
        /\ tree.nodes[tree.nodes[pid].children[i]].node.cls = "AlarmNode"
        /\ tree.nodes[tree.nodes[pid].children[i]].node.name = name

\* C34: create_node(name, parent) for a parent of the tree that has no
\* child group of this name succeeds, in every tree create_node,
\* create_alarm, remove_node and link_past_node lead to.
C34_CreateUnlessSibling ==
    [][(/\ call'.op = "create_node"
        /\ ResolvedParent(alarmTree, call'.parent) \in DOMAIN alarmTree.nodes
        /\ ~HasChildGroup(alarmTree,
                          ResolvedParent(alarmTree, call'.parent),
                          call'.arg))
           => call'.exc = None]_vars

-----------------------------------------------------------------------------
(* A $ALIAS that names an existing group *)

\* two top groups, a nested group, and aliases that are or are not the
\* name of another group of the same parent
DuplicateAliasFile ==
    <<"GROUP NULL A\n",
      "$COMMAND run x\n",
      "GROUP A G\n",
      "GROUP NULL G\n",
      "$GUIDANCE http://x\n",
      "$ALIAS A\n",
      "$ALIAS B\n",
      "CHANNEL G pv1\n">>

NextDuplicateAlias ==
    \/ ParseFileLine(DuplicateAliasFile)
    \/ EndOfFile

SpecDuplicateAlias == InitParse /\ [][NextDuplicateAlias]_vars

\* the step reads a $ALIAS line that renames a group without children and
\* fails because the new identifier is taken
RenameFailsAsDuplicate ==
    /\ RenamesGroup
    /\ alarmTree.nodes[currentNode].children = <<>>
    /\ status' = "raised"
    /\ error' = "DuplicatedNodeIdError"

\* C35: a $ALIAS line on a group without children that fails with a
\* duplicate identifier leaves the tree as it was, the group still in it
\* under its identifier and with its data.
C35_FailedRenameKeepsTree ==
    [][RenameFailsAsDuplicate =>
           /\ alarmTree' = alarmTree
           /\ currentNode \in DOMAIN alarmTree'.nodes]_vars

-----------------------------------------------------------------------------
(* The filters of a group and of the channels below it *)

\* a group with a calculated force filter, two channels that inherit it,
\* and $FORCEPV_CALC lines behind the channels
SharedFilterFile ==
    <<"GROUP NULL G\n",
      "$FORCEPV CALC -D--- 1 NE\n",
      "$FORCEPV_CALC A<B\n",
      "$FORCEPV_CALC_A test:ai1\n",
      "CHANNEL G pv1\n",
      "$FORCEPV_CALC_B test:ai2\n",
      "CHANNEL G pv2\n",
      "$FORCEPV_CALC B<A\n",
      "$FORCEPV_CALC_A test:ai3\n">>

NextSharedFilter ==
    \/ ParseFileLine(SharedFilterFile)
    \/ EndOfFile

SpecSharedFilter == InitParse /\ [][NextSharedFilter]_vars

\* the step reads a $FORCEPV_CALC line of any kind while a channel that
\* carries a filter is the current node
CalcLineAtChannel ==
    /\ ReadsLine
    /\ AtChannel
    /\ CarriesFilter(alarmTree, currentNode)
    /\ status' = "running"
    /\ str_startswith(LineKeyword(line'), "$FORCEPV_CALC")

\* the filter object of a node before and after the step
FilterBefore(nid) ==
    heap[AddressIndex(alarmTree.nodes[nid].node.filter, Len(heap))]

FilterBehind(nid) ==
    heap'[AddressIndex(alarmTree'.nodes[nid].node.filter, Len(heap'))]

\* C36: a $FORCEPV_CALC line read while a channel is the current node
\* leaves the filter of every other node, its group and its sibling
\* channels, as it was.
C36_FiltersIndependent ==
    [][CalcLineAtChannel =>
           \A nid \in DOMAIN alarmTree.nodes \ {currentNode} :
               CarriesFilter(alarmTree, nid) =>
                   /\ CarriesFilter(alarmTree', nid)
                   /\ FilterBehind(nid) = FilterBefore(nid)]_vars

-----------------------------------------------------------------------------
(* Filters that compare with >= and <= *)

CompareExprs == {"A>=B", "A<=B", "A>B", "A<B", "B>=A&A<=B", "A=B"}

CompareValues == {py_int(1), py_int(5), py_bool(TRUE)}

\* AlarmFilter(expr, value, A=pvA, B=pvB, enabling=enabling) with an
\* expression that compares two slots
NewCompareFilter ==
    \E expr \in CompareExprs, value \in CompareValues, pvA \in SlotAPVs,
       pvB \in SlotBPVs, enabling \in BOOLEAN :
        /\ Len(heap) < MaxFilters
        /\ heap' = Append(heap, [AlarmFilter(expr, value, enabling)
                                     EXCEPT !.replacements["A"] = pvA,
                                            !.replacements["B"] = pvB])
        /\ call' = FilterCall("__init__", Len(heap) + 1, TRUE, None)
        /\ UNCHANGED <<alarmTree, uuidCount, currentNode, continueData,
                       lastCall, line, lineno, status, error,
                       frames, disk>>

NextCompareFilter ==
    \/ NewCompareFilter
    \/ GetAlhForce
    \/ GetPhoebusFilter

SpecCompareFilter == InitParse /\ [][NextCompareFilter]_vars

\* C37: the >= and <= of the expression of a filter are found unchanged
\* in the string get_phoebus_filter returns.
C37_OrderComparisonsKept ==
    call.op = "get_phoebus_filter" =>
        \A operator \in {">=", "<="} :
            str_contains(heap[call.address].expr, operator)
                => str_contains(call.result, operator)

\* the = that stands alone is rewritten
C37_EqualityRewritten ==
    (/\ call.op = "get_phoebus_filter"
     /\ heap[call.address].expr = "A=B")
        => /\ str_contains(call.result, " == ")
           /\ ~str_contains(call.result, "A=B")

C37_WitnessEquality ==
    /\ call.op = "get_phoebus_filter"
    /\ heap[call.address].expr = "A=B"
    /\ call.result = "(test:ai1 == test:ai2) == 5"

-----------------------------------------------------------------------------
(* A $GUIDANCE block at the end of the file *)

\* C38: when parse_alh returns no continuation is pending: the text of
\* every $GUIDANCE block that was opened has been attached to the node
\* that was current, also when the file ends without $END.
C38_GuidanceAttachedAtReturn ==
    status = "returned" => continueData = None


-----------------------------------------------------------------------------
(* The force filter of a renamed group *)

\* a group with a force PV that is renamed, and a channel and a group
\* created below it afterwards
AliasFilterFile ==
    <<"GROUP NULL G\n",
      "$FORCEPV pv9 CD--- 1 NE\n",
      "$GUIDANCE http://x\n",
      "$ALIAS A\n",
      "$ALIAS G\n",
      "CHANNEL G pv1\n",
      "CHANNEL A pv2\n",
      "GROUP A H\n",
      "GROUP G H\n">>

NextAliasFilter ==
    \/ ParseFileLine(AliasFilterFile)
    \/ EndOfFile

SpecAliasFilter == InitParse /\ [][NextAliasFilter]_vars

\* the step renames a group without children that carries a filter
RenamesFilteredGroup ==
    /\ RenamesGroup
    /\ children(alarmTree, currentNode) = <<>>
    /\ CarriesFilter(alarmTree, currentNode)
    /\ status' = "running"

\* C39: the node a $ALIAS line puts in the place of a group without
\* children carries the filter the group carried.
C39_AliasKeepsFilter ==
    [][RenamesFilteredGroup
           => /\ CarriesFilter(alarmTree', currentNode')
              /\ alarmTree'.nodes[currentNode'].node.filter =
                     alarmTree.nodes[currentNode].node.filter]_vars

\* the part that holds: the renamed node has the displays of the group
C39_AliasKeepsDisplays ==
    [][RenamesFilteredGroup
           => alarmTree'.nodes[currentNode'].node.displays =
                  alarmTree.nodes[currentNode].node.displays]_vars


-----------------------------------------------------------------------------
(* The filter of a channel written to alh and parsed again *)

\* the expressions of a filter for one PV and for a calculation
TripExprs == {"pv9", "A<B"}

\* the values 1, 0, 5 and 2.5
TripValues == {py_int(1), py_int(0), py_int(5), py_float(25)}

\* the PVs of the slots A and B: none, A, or both
TripSlots == {<<"", "">>, <<"test:ai1", "">>, <<"test:ai1", "test:ai2">>}

\* AlarmFilter(expr, value, A=pvA, B=pvB, enabling=enabling)
NewChannelFilter ==
    \E expr \in TripExprs, value \in TripValues, pvs \in TripSlots,
       enabling \in BOOLEAN :
        /\ call.op # "get_alh_lines"
        /\ Len(heap) < MaxFilters
        /\ heap' = Append(heap, [AlarmFilter(expr, value, enabling)
                                     EXCEPT !.replacements["A"] = pvs[1],
                                            !.replacements["B"] = pvs[2]])
        /\ call' = FilterCall("__init__", Len(heap) + 1, TRUE, None)
        /\ UNCHANGED <<alarmTree, uuidCount, currentNode, continueData,
                       lastCall, line, lineno, status, error,
                       frames, disk>>

\* an enabled AlarmPV with this latch whose filter is the object at the
\* address
ChannelWith(address, latch) ==
    [AlarmPV("pv1", "0").val
         EXCEPT !.latch = latch,
                !.filter = "AlarmFilter@" \o ToString(address)]

\* parse_alh of a file that holds a group G and the lines exported for a
\* channel below it, each with its end of line
parse_exported(exported, objects, uuids) ==
    IF exported.exc # None
    THEN [w |-> World(AlarmTreeInit(ConfigName), objects, uuids),
          exc |-> exported.exc]
    ELSE parse_alh(<<"GROUP NULL G\n">> \o
                       [i \in 1..Len(exported.lines) |->
                            exported.lines[i] \o "\n"],
                   ConfigName, objects, uuids)

\* pv.get_alh_lines("G") for a channel with the filter, and parse_alh of
\* the lines; the tree is the one parse_alh returned
ExportAndParse ==
    \E address \in 1..Len(heap), latch \in BOOLEAN :
        /\ call.op = "__init__"
        /\ \E r \in {parse_exported(
                         alarmpv_alh_lines(ChannelWith(address, latch),
                                           heap, "G"),
                         heap, uuidCount)} :
               /\ alarmTree' = r.w.tree
               /\ heap' = r.w.heap
               /\ uuidCount' = r.w.uuid
               /\ call' = FilterCall("get_alh_lines", address, latch, r.exc)
        /\ UNCHANGED <<currentNode, continueData, lastCall, line, lineno,
                       status, error, frames, disk>>

NextFilterTrip ==
    \/ NewChannelFilter
    \/ ExportAndParse

SpecFilterTrip == InitParse /\ [][NextFilterTrip]_vars

\* the lines of a channel with a filter were exported and parsed
Tripped == call.op = "get_alh_lines"

\* the parse returned a tree with the channel
ChannelParsed ==
    /\ call.result = None
    /\ "pv1" \in DOMAIN alarmTree.nodes
    /\ alarmTree.nodes["pv1"].node.cls = "AlarmPV"

\* the target string of the filter of the parsed channel
ParsedTarget ==
    get_phoebus_filter(heap[AddressIndex(alarmTree.nodes["pv1"].node.filter,
                                         Len(heap))])

\* C40: the channel parsed from the lines exported for an enabled channel
\* with a filter is enabled and has a filter with the same target string.
C40_FilterRoundTrip ==
    Tripped
        => /\ ChannelParsed
           /\ alarmTree.nodes["pv1"].node.enabled
           /\ CarriesFilter(alarmTree, "pv1")
           /\ ParsedTarget = get_phoebus_filter(heap[call.address])

\* the part that holds: the parsed channel is enabled, and the filter of a
\* single PV with a float value has the same target string
C40_EnabledAndFloatTarget ==
    Tripped
        => /\ ChannelParsed
           /\ alarmTree.nodes["pv1"].node.enabled
           /\ (/\ ~any_replacement(heap[call.address])
               /\ heap[call.address].value.type = "float")
                  => /\ CarriesFilter(alarmTree, "pv1")
                     /\ ParsedTarget = get_phoebus_filter(heap[call.address])

C40_WitnessFloatTarget ==
    /\ Tripped
    /\ ~call.latch
    /\ heap[call.address].expr = "pv9"
    /\ ~heap[call.address].enabling
    /\ CarriesFilter(alarmTree, "pv1")
    /\ ParsedTarget = "pv9 != 2.5"

====
